---- MODULE Spec2Model ----
(***************************************************************************)
(* Model of src/main.js: the post-processing chain (EffectComposer and its *)
(* passes), the colour-grading (LUT) preset selection with its cache and   *)
(* asynchronous loads, and the events that drive them.                     *)
(*                                                                         *)
(* Numbers that the code holds as floats with two decimals are held here   *)
(* in hundredths: 0.6 is 60, a hotkey step of 0.05 is 5.                   *)
(*                                                                         *)
(* The point-cloud viewer (model and morph-target loads, buildPoints, the  *)
(* morph controller, resize and frames) holds keepRatio and morphAmount in *)
(* ten-thousandths: 0.18 is 1800, a wheel step of 0.0007 is 7.             *)
(*                                                                         *)
(* Point size is held in hundredths of a pixel, scatter amplitude and fog  *)
(* density in thousandths, the animation uniforms in hundredths.  The      *)
(* vertex shader works on lengths and on values of [0, 1] in thousandths,  *)
(* with uTime and uWaveSpeed in tenths.                                    *)
(***************************************************************************)
EXTENDS Integers, Sequences, FiniteSets, TLC

(* ------------------------------ bounds -------------------------------- *)

\* Loads of grading tables issued over one run (lutLoader.load calls).
MaxLoads == 3

\* Events handled over one run of the full event model (Spec).
MaxEvents == 3

\* Geometry loads issued over one run (loader.load calls of loadModel and of
\* loadMorphTargetGeometry), the load of the first model included.
MaxGeomLoads == 5

\* Largest vertex count of a geometry handed to sampleGeometryAttributes in
\* the model of the resampler (SpecSample), and largest target count.
MaxSrc == 12
MaxTarget == 10

\* Hotkeys and animation-parameter events in one behaviour.
MaxUiEvents == 3

\* Frames one element is shaded for, each at a scatter amplitude no lower
\* than the one before.
MaxFrames == 2

\* Calls of buildPoints followed statement by statement (SpecRebuild).
MaxRebuilds == 3

(* --------------------------- the registry ----------------------------- *)

\* The own keys of the LUT_PRESETS object literal.
PresetNames == {"warm", "green", "mutedUrban", "forest", "latest"}

\* A name every plain object inherits from Object.prototype: LUT_PRESETS is
\* an object literal, so LUT_PRESETS["constructor"] is a function (truthy)
\* that has no own `path`.
ObjectPrototypeNames == {"constructor"}

\* The `path` of LUT_PRESETS[key]; "undefined" where the looked-up value has
\* no path property.
PresetPath(key) ==
  CASE key = "warm"       -> "luts/warm.cube"
    [] key = "green"      -> "luts/LUT_green.cube"
    [] key = "mutedUrban" -> "luts/LUT_muted-urban.cube"
    [] key = "forest"     -> "luts/LUT_forest.cube"
    [] key = "latest"     -> "luts/LUT_PRESETSSTORE.cube"
    [] OTHER              -> "undefined"

\* Truthiness of the property lookup LUT_PRESETS[key], as `LUT_PRESETS[key] ?`
\* evaluates it: own keys, and names found on the prototype chain.
LUT_PRESETS(key) == key \in PresetNames \/ key \in ObjectPrototypeNames

Paths == {PresetPath(k) : k \in PresetNames} \cup {"undefined"}

\* Keys a caller passes to setLutPreset: the registry, the sentinel, a key
\* found nowhere, and an inherited property name.
KeyInputs == PresetNames \cup {"none", "bogus"} \cup ObjectPrototypeNames

(* ------------------------------ values -------------------------------- *)

\* null, for lutPass.lut and for a path that lutLoadMap does not hold.
Null == [path |-> "null", id |-> 0]

\* The texture3D a completed load delivers: a fresh object per load.
Texture(load) == [path |-> load.path, id |-> load.id]

\* Values the lutIntensity slider sends (hundredths), in and out of [0, 1].
IntensityInputs == {-50, 0, 50, 100, 150}

Max(a, b) == IF a > b THEN a ELSE b
Min(a, b) == IF a < b THEN a ELSE b

VARIABLES
  activeLutKey,    \* let activeLutKey
  lutLoadMap,      \* let lutLoadMap: path -> texture, Null where absent
  lutIntensity,    \* let lutIntensity (hundredths)
  lutPass,         \* the LUTPass: enabled, intensity, lut
  pending,         \* loads issued by lutLoader.load and not yet completed
  nextLoadId,      \* identity of the next load issued
  lastDispatched,  \* window events dispatched by the grading handler that ran last
  lastCall,        \* the latest setLutPreset call: its argument, and the load it
                   \* issued (0 when it issued none)
  lutErrors        \* the loads console.error has reported as failed

lutVars == <<activeLutKey, lutLoadMap, lutIntensity, lutPass, pending, nextLoadId,
             lastDispatched, lastCall, lutErrors>>

VARIABLES
  composerPasses,  \* composer.passes, in the order of the addPass calls
  bloomPass,       \* the UnrealBloomPass: enabled, strength, radius, threshold
  bcPass,          \* brightness/contrast pass: enabled, brightness, contrast
  hsPass,          \* hue/saturation pass: enabled, hue, saturation
  vignettePass,    \* vignette pass: enabled, offset, darkness
  edgeBlurPass,    \* edge blur pass: enabled, maxRadius, falloff, strength
  fxaaPass,        \* FXAA pass: enabled
  events           \* events handled so far in the full event model

fxVars == <<bloomPass, bcPass, hsPass, vignettePass, edgeBlurPass, fxaaPass>>

VARIABLES
  innerWidth,      \* window.innerWidth
  innerHeight,     \* window.innerHeight
  devicePixelRatio,\* window.devicePixelRatio (hundredths)
  resizePending,   \* the viewport changed and the resize event is not yet handled
  postSizes,       \* sizes held by the composer, bloom, edge blur and FXAA
  files,           \* what the .ply file at each path holds (fixed over a run)
  modelIndex,      \* let modelIndex
  originalGeom,    \* let originalGeom, NoGeom for null
  morphTargetGeom, \* let morphTargetGeom, NoGeom for null
  points,          \* let points: attribute counts and uniforms, NoPoints for null
  keepRatio,       \* let keepRatio (ten-thousandths)
  morphAmount,     \* let morphAmount (ten-thousandths)
  allowWheelMorph, \* let allowWheelMorph
  geomLoads,       \* loader.load calls not yet completed
  nextGeomLoad,    \* identity of the next geometry load issued
  lastMorphCall,   \* the load issued by the latest loadMorphTargetGeometry call
                   \* (0 when it issued none)
  lastEvent,       \* the viewer step that ran last, and the window events it dispatched
  sample,          \* the resampler's argument and result (SpecSample)
  scene,           \* point sets held by the scene, in the order of scene.add
  pointSizePx,     \* let pointSizePx (hundredths)
  scatterAmp,      \* let scatterAmp (thousandths)
  fogDensity,      \* let fogDensity (thousandths)
  lastParam,       \* per animation parameter, the value its latest change event
                   \* carried (NoChange before the first)
  uiEvents,        \* hotkeys and animation-parameter events so far
  squareMix,       \* let squareMix (thousandths)
  fogEnabled,      \* let fogEnabled
  background,      \* scene.background, as the colour's hex string
  shade,           \* the vertex shader's inputs and outputs for one element (SpecShader)
  rebuild          \* buildPoints() statement by statement: the statement to run
                   \* next, the scene, `points`, and what was disposed (SpecRebuild)

viewportVars == <<innerWidth, innerHeight, devicePixelRatio, resizePending, postSizes>>

geomVars == <<files, modelIndex, originalGeom, morphTargetGeom, points, keepRatio,
              morphAmount, allowWheelMorph, geomLoads, nextGeomLoad, lastMorphCall>>

paramVars == <<pointSizePx, scatterAmp, fogDensity, lastParam, uiEvents>>

mirrorVars == <<squareMix, fogEnabled, background>>

viewVars == <<viewportVars, geomVars, lastEvent, sample, scene, paramVars, mirrorVars, shade, rebuild>>

postVars == <<lutVars, composerPasses, fxVars, events>>

vars == <<lutVars, composerPasses, fxVars, events, viewVars>>

(* ------------------------------ grading ------------------------------- *)

\* updateLutPass without the intensity test.
updateLutPassIgnoringIntensity(key, pass, intensity) ==
  [pass EXCEPT !.intensity = intensity,
               !.enabled = (key # "none" /\ pass.lut # Null)]

\* updateLutPass(): the pass after the call, given the selection, the pass
\* as the caller left it, and the intensity.
updateLutPass(key, pass, intensity) ==
  [pass EXCEPT !.intensity = intensity,
               !.enabled = (key # "none" /\ pass.lut # Null /\ intensity > 0)]

\* setLutPreset that never consults lutLoadMap: every preset selection loads.
setLutPresetAlwaysLoads(key) ==
  LET normalized == IF key \in PresetNames \/ key \in ObjectPrototypeNames THEN key ELSE "none"
      path       == PresetPath(normalized)
  IN  /\ activeLutKey' = normalized
      /\ IF normalized = "none"
           THEN /\ lutPass' = [lutPass EXCEPT !.lut = Null, !.enabled = FALSE,
                                              !.intensity = lutIntensity]
                /\ lastCall' = [key |-> key, load |-> 0]
                /\ UNCHANGED <<pending, nextLoadId>>
           ELSE /\ nextLoadId <= MaxLoads
                /\ pending' = pending \cup
                     {[id |-> nextLoadId, key |-> normalized, path |-> path]}
                /\ nextLoadId' = nextLoadId + 1
                /\ lastCall' = [key |-> key, load |-> nextLoadId]
                /\ UNCHANGED lutPass
      /\ UNCHANGED <<lutLoadMap, lutIntensity, lutErrors>>

\* setLutPreset(key). lutPass exists from initPost on, which runs while the
\* module is evaluated, before any event: the `!lutPass` branch is not taken.
setLutPreset(key) ==
  LET normalized == IF LUT_PRESETS(key) THEN key ELSE "none"
      path       == PresetPath(normalized)
      cached     == lutLoadMap[path]
  IN  /\ activeLutKey' = normalized
      /\ IF normalized = "none"
           THEN /\ lutPass' = updateLutPass(normalized, [lutPass EXCEPT !.lut = Null],
                                            lutIntensity)
                /\ lastCall' = [key |-> key, load |-> 0]
                /\ UNCHANGED <<pending, nextLoadId>>
           ELSE IF cached # Null
             THEN /\ lutPass' = updateLutPass(normalized, [lutPass EXCEPT !.lut = cached],
                                              lutIntensity)
                  /\ lastCall' = [key |-> key, load |-> 0]
                  /\ UNCHANGED <<pending, nextLoadId>>
             ELSE /\ nextLoadId <= MaxLoads
                  /\ pending' = pending \cup
                       {[id |-> nextLoadId, key |-> normalized, path |-> path]}
                  /\ nextLoadId' = nextLoadId + 1
                  /\ lastCall' = [key |-> key, load |-> nextLoadId]
                  /\ UNCHANGED lutPass
      /\ UNCHANGED <<lutLoadMap, lutIntensity, lutErrors>>

\* onLoad without the `activeLutKey === normalized` test: it always applies.
LutLoadSuccessAlwaysApplies(load) ==
  /\ lutLoadMap' = [lutLoadMap EXCEPT ![load.path] = [path |-> load.path, id |-> load.id]]
  /\ lutPass' = [lutPass EXCEPT !.lut = [path |-> load.path, id |-> load.id],
                                !.intensity = lutIntensity,
                                !.enabled = (activeLutKey # "none" /\ lutIntensity > 0)]
  /\ UNCHANGED <<activeLutKey, lutIntensity, lutErrors>>

\* onLoad that caches the texture and never applies it.
LutLoadSuccessCachesOnly(load) ==
  /\ lutLoadMap' = [lutLoadMap EXCEPT ![load.path] = [path |-> load.path, id |-> load.id]]
  /\ UNCHANGED <<activeLutKey, lutIntensity, lutPass, lutErrors>>

\* The onLoad callback of the load `load`.
LutLoadSuccess(load) ==
  LET tex == Texture(load)
  IN  /\ lutLoadMap' = [lutLoadMap EXCEPT ![load.path] = tex]
      /\ IF activeLutKey = load.key
           THEN lutPass' = updateLutPass(activeLutKey, [lutPass EXCEPT !.lut = tex],
                                         lutIntensity)
           ELSE UNCHANGED lutPass
      /\ UNCHANGED <<activeLutKey, lutIntensity, lutErrors>>

\* onError that reverts the selection and leaves the bound texture in place.
LutLoadErrorKeepsLut(load) ==
  /\ lutErrors' = lutErrors \cup {load}
  /\ IF activeLutKey = load.key
         THEN /\ activeLutKey' = "none"
              /\ lutPass' = [lutPass EXCEPT !.intensity = lutIntensity, !.enabled = FALSE]
              /\ lastDispatched' = {"ui-refresh"}
              /\ UNCHANGED <<lutLoadMap, lutIntensity>>
         ELSE /\ lastDispatched' = {}
              /\ UNCHANGED <<activeLutKey, lutPass, lutLoadMap, lutIntensity>>

\* onError that records the failure in lutLoadMap under the load's path.
LutLoadErrorCachesFailure(load) ==
  /\ lutErrors' = lutErrors \cup {load}
  /\ lutLoadMap' = [lutLoadMap EXCEPT ![load.path] = Texture(load)]
  /\ IF activeLutKey = load.key
         THEN /\ activeLutKey' = "none"
              /\ lutPass' = updateLutPass("none", [lutPass EXCEPT !.lut = Null], lutIntensity)
              /\ lastDispatched' = {"ui-refresh"}
              /\ UNCHANGED lutIntensity
         ELSE /\ lastDispatched' = {}
              /\ UNCHANGED <<activeLutKey, lutPass, lutIntensity>>

\* The onError callback of the load `load`: console.error, then the revert
\* when the load's preset is still the selection.
LutLoadError(load) ==
  /\ lutErrors' = lutErrors \cup {load}
  /\ IF activeLutKey = load.key
         THEN /\ activeLutKey' = "none"
              /\ lutPass' = updateLutPass("none", [lutPass EXCEPT !.lut = Null], lutIntensity)
              /\ lastDispatched' = {"ui-refresh"}
              /\ UNCHANGED <<lutLoadMap, lutIntensity>>
         ELSE /\ lastDispatched' = {}
              /\ UNCHANGED <<activeLutKey, lutPass, lutLoadMap, lutIntensity>>

\* The lutIntensity slider's input handler.
LutIntensityInput(v) ==
  /\ lutIntensity' = Max(0, Min(100, v))
  /\ lutPass' = updateLutPass(activeLutKey, lutPass, lutIntensity')
  /\ UNCHANGED <<activeLutKey, lutLoadMap, pending, nextLoadId, lutErrors>>

(* --------------------------- the effect chain ------------------------- *)

\* The passes initPost hands to composer.addPass, in call order.
initPostPassesHueAfterVignette ==
  <<"renderPass", "bloomPass", "bcPass", "vignettePass", "hsPass", "edgeBlurPass",
    "fxaaPass", "lutPass">>

initPostPasses ==
  <<"renderPass", "bloomPass", "bcPass", "hsPass", "vignettePass", "edgeBlurPass",
    "fxaaPass", "lutPass">>

\* The stages that follow the scene render, by the name of their pass.
Stages == {"bloomPass", "bcPass", "hsPass", "vignettePass", "edgeBlurPass", "fxaaPass",
           "lutPass"}

\* A stage's enabled flag and parameters.
StageState(n) ==
  CASE n = "bloomPass"    -> bloomPass
    [] n = "bcPass"       -> bcPass
    [] n = "hsPass"       -> hsPass
    [] n = "vignettePass" -> vignettePass
    [] n = "edgeBlurPass" -> edgeBlurPass
    [] n = "fxaaPass"     -> fxaaPass
    [] n = "lutPass"      -> lutPass

\* Keys the Post FX keydown handler tests for.
PostFxKeys ==
  {"b", "n", "m", "v", "g", "h", "c", ",", ".", ";", "'", "y", "u", "j", "i", "k", "x"}

\* Values a Post FX slider sends (hundredths): the handlers take Number(value)
\* as it comes.
FxInputs == {-150, 50, 350}

\* The keydown handler with an FXAA toggle that also switches the grading pass.
PostFxKeydownFxaaTouchesLut(k) ==
  /\ bloomPass' = IF k = "b" THEN [bloomPass EXCEPT !.enabled = ~bloomPass.enabled]
                  ELSE bloomPass
  /\ fxaaPass' = IF k = "x" THEN [fxaaPass EXCEPT !.enabled = ~fxaaPass.enabled]
                 ELSE fxaaPass
  /\ lutPass' = IF k = "x" THEN [lutPass EXCEPT !.enabled = ~fxaaPass.enabled]
                ELSE lutPass
  /\ UNCHANGED <<bcPass, hsPass, vignettePass, edgeBlurPass>>
  /\ UNCHANGED <<activeLutKey, lutLoadMap, lutIntensity, pending, nextLoadId, lastCall,
                 lastDispatched, lutErrors>>

\* The Post FX keydown handler for the key k. composer exists from initPost
\* on, so the `!composer` return is not taken.
PostFxKeydown(k) ==
  /\ bloomPass' =
       CASE k = "b" -> [bloomPass EXCEPT !.enabled = ~bloomPass.enabled]
         [] k = "n" -> [bloomPass EXCEPT !.strength = Max(0, bloomPass.strength - 5)]
         [] k = "m" -> [bloomPass EXCEPT !.strength = Min(300, bloomPass.strength + 5)]
         [] OTHER   -> bloomPass
  /\ vignettePass' =
       CASE k = "v" -> [vignettePass EXCEPT !.enabled = ~vignettePass.enabled]
         [] k = "g" -> [vignettePass EXCEPT !.darkness = Max(0, vignettePass.darkness - 5)]
         [] k = "h" -> [vignettePass EXCEPT !.darkness = Min(200, vignettePass.darkness + 5)]
         [] OTHER   -> vignettePass
  /\ bcPass' =
       CASE k = "c" -> [bcPass EXCEPT !.enabled = ~bcPass.enabled]
         [] k = "," -> [bcPass EXCEPT !.contrast = Max(-100, bcPass.contrast - 5)]
         [] k = "." -> [bcPass EXCEPT !.contrast = Min(100, bcPass.contrast + 5)]
         [] k = ";" -> [bcPass EXCEPT !.brightness = Max(-100, bcPass.brightness - 5)]
         [] k = "'" -> [bcPass EXCEPT !.brightness = Min(100, bcPass.brightness + 5)]
         [] OTHER   -> bcPass
  /\ hsPass' =
       CASE k = "y" -> [hsPass EXCEPT !.enabled = ~hsPass.enabled]
         [] k = "u" -> [hsPass EXCEPT !.saturation = Min(100, hsPass.saturation + 5)]
         [] k = "j" -> [hsPass EXCEPT !.saturation = Max(-100, hsPass.saturation - 5)]
         [] k = "i" -> [hsPass EXCEPT !.hue = Min(100, hsPass.hue + 2)]
         [] k = "k" -> [hsPass EXCEPT !.hue = Max(-100, hsPass.hue - 2)]
         [] OTHER   -> hsPass
  /\ fxaaPass' = IF k = "x" THEN [fxaaPass EXCEPT !.enabled = ~fxaaPass.enabled]
                 ELSE fxaaPass
  /\ UNCHANGED <<edgeBlurPass, lutVars>>

\* The control panel's Post FX handlers, one per control.
OnEdgeBlurChange(checked) ==
  /\ edgeBlurPass' = [edgeBlurPass EXCEPT !.enabled = checked]
  /\ UNCHANGED <<bloomPass, bcPass, hsPass, vignettePass, fxaaPass, lutVars>>

OnEdgeBlurAmtInput(v) ==
  /\ edgeBlurPass' = [edgeBlurPass EXCEPT !.maxRadius = v]
  /\ UNCHANGED <<bloomPass, bcPass, hsPass, vignettePass, fxaaPass, lutVars>>

OnBloomChange(checked) ==
  /\ bloomPass' = [bloomPass EXCEPT !.enabled = checked]
  /\ UNCHANGED <<bcPass, hsPass, vignettePass, edgeBlurPass, fxaaPass, lutVars>>

OnBloomStrengthInput(v) ==
  /\ bloomPass' = [bloomPass EXCEPT !.strength = v]
  /\ UNCHANGED <<bcPass, hsPass, vignettePass, edgeBlurPass, fxaaPass, lutVars>>

OnVignetteChange(checked) ==
  /\ vignettePass' = [vignettePass EXCEPT !.enabled = checked]
  /\ UNCHANGED <<bloomPass, bcPass, hsPass, edgeBlurPass, fxaaPass, lutVars>>

OnVignetteDarkInput(v) ==
  /\ vignettePass' = [vignettePass EXCEPT !.darkness = v]
  /\ UNCHANGED <<bloomPass, bcPass, hsPass, edgeBlurPass, fxaaPass, lutVars>>

OnBcChange(checked) ==
  /\ bcPass' = [bcPass EXCEPT !.enabled = checked]
  /\ UNCHANGED <<bloomPass, hsPass, vignettePass, edgeBlurPass, fxaaPass, lutVars>>

OnContrastInput(v) ==
  /\ bcPass' = [bcPass EXCEPT !.contrast = v]
  /\ UNCHANGED <<bloomPass, hsPass, vignettePass, edgeBlurPass, fxaaPass, lutVars>>

OnBrightInput(v) ==
  /\ bcPass' = [bcPass EXCEPT !.brightness = v]
  /\ UNCHANGED <<bloomPass, hsPass, vignettePass, edgeBlurPass, fxaaPass, lutVars>>

OnHsChange(checked) ==
  /\ hsPass' = [hsPass EXCEPT !.enabled = checked]
  /\ UNCHANGED <<bloomPass, bcPass, vignettePass, edgeBlurPass, fxaaPass, lutVars>>

OnSatInput(v) ==
  /\ hsPass' = [hsPass EXCEPT !.saturation = v]
  /\ UNCHANGED <<bloomPass, bcPass, vignettePass, edgeBlurPass, fxaaPass, lutVars>>

OnHueInput(v) ==
  /\ hsPass' = [hsPass EXCEPT !.hue = v]
  /\ UNCHANGED <<bloomPass, bcPass, vignettePass, edgeBlurPass, fxaaPass, lutVars>>

OnFxaaChange(checked) ==
  /\ fxaaPass' = [fxaaPass EXCEPT !.enabled = checked]
  /\ UNCHANGED <<bloomPass, bcPass, hsPass, vignettePass, edgeBlurPass, lutVars>>

(* ------------------------------ the viewer ----------------------------- *)

\* const models: the .ply files the model button cycles through.
models == <<"point/tree-bush.ply", "point/tree-stump-2.ply">>

ModelPaths == {models[i] : i \in 1..Len(models)}

\* MORPH_PAIRS[path] ?? null: the morph target of a model, "null" where the
\* model has none.
MORPH_PAIRS(path) ==
  IF path = "point/tree-bush.ply" THEN "point/tree-stump-2.ply" ELSE "null"

\* Vertex counts a .ply file may hold: one small enough that the keep-ratio
\* floors to zero elements, and the spec's example size of 10,000.
GeomCounts == {3, 10000}

\* What a .ply file may hold: its vertex count, and whether it has colours.
FileContents ==
  {c \in [count : GeomCounts, hasColor : BOOLEAN] : c.count = 10000 \/ ~c.hasColor}

\* null, for originalGeom and morphTargetGeom.
NoGeom == [path |-> "null", count |-> 0, hasColor |-> FALSE]

\* The animation uniforms of a material as makeGlowMaterial creates it
\* (hundredths; a flag is 100 for 1.0 and 0 for 0.0).
DefaultParams ==
  [uWindEnabled |-> 100, uWindAmp |-> 2, uWindFreq |-> 80, uWindSpatial |-> 150,
   uWaveLength |-> 60, uWaveSpeed |-> 60, uWaveWidth |-> 15, uBandGamma |-> 150,
   uUseWorldSize |-> 100, uSizeAttenEnabled |-> 0]

ParamNames == DOMAIN DefaultParams

\* No change event of an animation parameter yet.
NoChange == [changed |-> FALSE, value |-> 0]

\* null, for points.
NoPoints ==
  [position |-> 0, color |-> 0, morphPosition |-> 0, morphColor |-> 0,
   colors |-> "null", morphColors |-> "null",
   uUseVertexColor |-> FALSE, uMorph |-> 0,
   uBaseSize |-> 0, uScatterAmp |-> 0, uFogDensity |-> 0,
   uSquareMix |-> 0, uFogEnabled |-> 0, uFogColor |-> "null",
   base |-> "null", morphFrom |-> "null", params |-> DefaultParams]

\* getAttribute('position') of a geometry is defined: the loader sets the
\* attribute only for a file that holds vertices.
HasPosition(geom) == geom # NoGeom /\ geom.count > 0

\* The geometry a completed load hands to its onLoad callback, after
\* prepareGeometryForView (which moves and scales the vertices, and keeps
\* their number and attributes).
prepareGeometryForView(load, contents) ==
  [path |-> load.path, count |-> contents[load.path].count,
   hasColor |-> contents[load.path].hasColor]

\* THREE.MathUtils.clamp without its upper bound.
clampLowOnly(value, lo, hi) == Max(lo, value)

\* THREE.MathUtils.clamp(value, min, max) as setMorphAmount calls it.
clamp(value, lo, hi) == Max(lo, Min(hi, value))

\* The module-level parameters makeGlowMaterial and updateFog read, as one
\* value: pointSizePx, scatterAmp and fogDensity as the caller has just
\* written them, squareMix, fogEnabled and scene.background as they stand.
globals(size, scatter, fog) ==
  [pointSizePx |-> size, scatterAmp |-> scatter, fogDensity |-> fog,
   squareMix |-> squareMix, fogEnabled |-> fogEnabled, background |-> background]

\* updateFog(): the fog uniforms of the rendered point set, when there is
\* one, written from fogEnabled, fogDensity and scene.background.
updateFog(pts, enabled, density, bg) ==
  IF pts = NoPoints THEN pts
  ELSE [pts EXCEPT !.uFogEnabled = IF enabled THEN 100 ELSE 0,
                   !.uFogDensity = density,
                   !.uFogColor = bg]

\* updateFog() also reads uSquareMix of the rendered point set back into
\* squareMix. (At the end of buildPoints the uniform has just been written
\* from squareMix, so there the read leaves squareMix as it is.)
squareMixRead(pts) == IF pts = NoPoints THEN squareMix ELSE pts.uSquareMix

\* updateMorphUniform(): mirror the blend factor into uMorph of the rendered
\* point set, when there is one.
updateMorphUniform(pts, amount) ==
  IF pts = NoPoints THEN pts ELSE [pts EXCEPT !.uMorph = amount]

\* A ratio taken over the whole document height instead of the extent that
\* can be scrolled.
scrollRatioOfDocument(scrollTop, scrollHeight, height) ==
  IF scrollHeight > 0 THEN (scrollTop * 10000) \div scrollHeight ELSE 0

\* The ratio syncMorphToScroll hands to setMorphAmount, from the scroll
\* position and the document height it reads (ten-thousandths).
scrollRatio(scrollTop, scrollHeight, height) ==
  LET maxScroll == Max(0, scrollHeight - height)
  IN  IF maxScroll > 0 THEN (scrollTop * 10000) \div maxScroll ELSE 0

\* Scroll positions read by syncMorphToScroll: overscrolled above the top,
\* at the top, part of the way down, at or past the bottom.
ScrollTops == {-50, 0, 500, 2000}

\* Document heights read by syncMorphToScroll: one that leaves nothing to
\* scroll, one taller than every viewport.
ScrollHeights == {600, 1600}

(* ----------------------------- the resampler --------------------------- *)

\* The element count of a sample that ignores the size of the source.
sampleCountUnbounded(srcCount, targetCount) == Max(1, targetCount)

\* count = Math.max(1, Math.min(targetCount, srcCount))
sampleCount(srcCount, targetCount) == Max(1, Min(targetCount, srcCount))

\* null, the result of sampleGeometryAttributes without a source or a target.
NoSample == [count |-> 0, positions |-> <<>>, colors |-> <<>>]

\* Math.floor(idx) at output element i, idx being the double that i additions
\* of step = srcCount / count (rounded to a double) have accumulated from 0.
\* The sum is the exact i * srcCount / count or a neighbouring double; its
\* floor is that of the exact value unless the exact value is an integer and
\* the sum fell just below it. For sources of up to 15 vertices and counts
\* of up to 13 that happens once: with srcCount = 12 and count = 9 the step
\* is 1.3333333333333333 and six additions give 7.999999999999999.
floorOfIdx(srcCount, count, i) ==
  IF srcCount = 12 /\ count = 9 /\ i = 6 THEN 7
  ELSE (i * srcCount) \div count

\* The loop of sampleGeometryAttributes from output element i on: three array
\* entries per element, each naming the source vertex it was copied from and
\* the component. idx advances by step = srcCount / count per element.
RECURSIVE sampleLoop(_, _, _, _)
sampleLoop(srcCount, count, i, components) ==
  IF i = count THEN <<>>
  ELSE LET srcIndex == Min(srcCount - 1, floorOfIdx(srcCount, count, i))
       IN  [c \in 1..3 |-> [src |-> srcIndex, component |-> components[c]]]
             \o sampleLoop(srcCount, count, i + 1, components)

\* sampleGeometryAttributes(sourceGeom, targetCount); colors is <<>> (null)
\* when the source has no colour attribute.
sampleGeometryAttributes(sourceGeom, targetCount) ==
  IF sourceGeom = NoGeom \/ targetCount = 0 THEN NoSample
  ELSE LET count == sampleCount(sourceGeom.count, targetCount)
       IN  [count |-> count,
            positions |-> sampleLoop(sourceGeom.count, count, 0, <<"x", "y", "z">>),
            colors |-> IF sourceGeom.hasColor
                         THEN sampleLoop(sourceGeom.count, count, 0, <<"r", "g", "b">>)
                         ELSE <<>>]

(* ------------------------------ buildPoints ---------------------------- *)

\* What a colour array of the point set holds: "ones" for an array filled
\* with 1, otherwise the path of the geometry whose colours were sampled.

\* baseColorsArray: the sample's colours, which sampleGeometryAttributes
\* returns for a source with a color attribute, or an array of ones.
baseColorsArray(orig) == IF orig.hasColor THEN orig.path ELSE "ones"

\* A morph colour array that is white whenever the target has no colours.
morphColorArrayWhiteFallback(orig, morph) ==
  IF HasPosition(morph) /\ morph.hasColor THEN morph.path ELSE "ones"

\* morphColorArray: the target sample's colours; without them (no target, or
\* a target without colours) a copy of the base sample's colours; without
\* those an array of ones.
morphColorArray(orig, morph) ==
  IF HasPosition(morph) /\ morph.hasColor THEN morph.path
  ELSE IF orig.hasColor THEN orig.path
  ELSE "ones"

\* The target of a resample that rounds the product up.
resampleTargetCeil(count, ratio) == Max(1, (count * ratio + 9999) \div 10000)

\* Math.max(1, Math.floor(count * keepRatio)), keepRatio in ten-thousandths.
\* The code multiplies doubles; for every count and ratio of this model the
\* floor of the double product is the floor of the exact one.
resampleTarget(count, ratio) == Max(1, (count * ratio) \div 10000)

\* buildPoints that samples the morph target at its own resample target.
buildPointsOwnTargets(orig, morph, ratio, amount, old, g) ==
  IF ~HasPosition(orig) THEN old
  ELSE LET baseTarget == resampleTarget(orig.count, ratio)
           baseSample == sampleCount(orig.count, baseTarget)
           targetSample == sampleCount(morph.count, resampleTarget(morph.count, ratio))
       IN  [position |-> baseSample,
            color |-> baseSample,
            morphPosition |-> IF HasPosition(morph) THEN targetSample ELSE baseSample,
            morphColor |-> IF HasPosition(morph) /\ morph.hasColor
                             THEN targetSample ELSE baseSample,
            colors |-> baseColorsArray(orig),
            morphColors |-> morphColorArray(orig, morph),
            uUseVertexColor |-> orig.hasColor,
            uMorph |-> amount,
            uBaseSize |-> g.pointSizePx,
            uScatterAmp |-> g.scatterAmp,
            uFogDensity |-> g.fogDensity,
            uSquareMix |-> g.squareMix,
            uFogEnabled |-> IF g.fogEnabled THEN 100 ELSE 0,
            uFogColor |-> g.background,
            base |-> orig.path,
            morphFrom |-> IF HasPosition(morph) THEN morph.path ELSE orig.path,
            params |-> DefaultParams]

\* buildPoints(): the point set built from originalGeom, morphTargetGeom and
\* keepRatio, as element counts of its four attributes (each array holds
\* three entries per element), the geometries its position and morphPosition
\* were sampled from, and its uniforms. `old` is the point set left in place
\* on an early return (no base geometry, or one without positions); g holds
\* pointSizePx, scatterAmp and fogDensity as makeGlowMaterial and updateFog
\* read them.
buildPoints(orig, morph, ratio, amount, old, g) ==
  IF ~HasPosition(orig) THEN old
  ELSE LET baseTarget == resampleTarget(orig.count, ratio)
           finalCount == IF HasPosition(morph)
                           THEN Min(baseTarget, resampleTarget(morph.count, ratio))
                           ELSE baseTarget
           baseSample == sampleCount(orig.count, finalCount)
           targetSample == sampleCount(morph.count, finalCount)
       IN  [position |-> baseSample,
            color |-> baseSample,
            morphPosition |-> IF HasPosition(morph) THEN targetSample ELSE baseSample,
            morphColor |-> IF HasPosition(morph) /\ morph.hasColor
                             THEN targetSample ELSE baseSample,
            colors |-> baseColorsArray(orig),
            morphColors |-> morphColorArray(orig, morph),
            uUseVertexColor |-> orig.hasColor,
            uMorph |-> amount,
            uBaseSize |-> g.pointSizePx,
            uScatterAmp |-> g.scatterAmp,
            uFogDensity |-> g.fogDensity,
            uSquareMix |-> g.squareMix,
            uFogEnabled |-> IF g.fogEnabled THEN 100 ELSE 0,
            uFogColor |-> g.background,
            base |-> orig.path,
            morphFrom |-> IF HasPosition(morph) THEN morph.path ELSE orig.path,
            params |-> DefaultParams]

\* The scene after a buildPoints call that keeps the previous point set in
\* the scene, disposed.
sceneAfterBuildKeepsOld(orig, sc) ==
  IF ~HasPosition(orig) THEN sc
  ELSE Append([i \in 1..Len(sc) |-> [current |-> FALSE, disposed |-> TRUE]],
              [current |-> TRUE, disposed |-> FALSE])

\* The scene after buildPoints(): nothing on an early return; otherwise the
\* previous point set is disposed and removed, and the new one is added. An
\* entry tells whether it is the object `points` refers to, and whether its
\* geometry and material are disposed.
sceneAfterBuild(orig, sc) ==
  IF ~HasPosition(orig) THEN sc
  ELSE Append(SelectSeq(sc, LAMBDA e : ~e.current),
              [current |-> TRUE, disposed |-> FALSE])

\* No THREE.Points object.
NoObject == [id |-> 0, count |-> 0]

\* What `originalGeom` holds when buildPoints is entered: null, a geometry
\* without a position attribute, a geometry of 10,000 vertices.
RebuildGeoms ==
  {NoGeom} \cup {[path |-> models[1], count |-> c, hasColor |-> TRUE] : c \in {0, 10000}}

\* keepRatio when buildPoints is entered (ten-thousandths).
RebuildRatios == {200, 1800, 10000}

\* buildPoints() up to the test of `points`: the early returns, then the new
\* geometry and material; `fresh` stands for the pair. The call is the
\* (builds + 1)-th.
buildPointsEnter(orig, ratio) ==
  /\ rebuild.pc = "return"
  /\ rebuild.builds < MaxRebuilds
  /\ rebuild' =
       IF ~HasPosition(orig)
         THEN [rebuild EXCEPT !.builds = @ + 1]
         ELSE [rebuild EXCEPT
                 !.builds = @ + 1,
                 !.fresh = [id |-> rebuild.builds + 1,
                            count |-> resampleTarget(orig.count, ratio)],
                 !.pc = IF rebuild.points # NoObject THEN "geometry.dispose"
                        ELSE "new Points"]

\* points.geometry.dispose()
disposeGeometry ==
  /\ rebuild.pc = "geometry.dispose"
  /\ rebuild' = [rebuild EXCEPT
                   !.disposed = @ \cup {[id |-> rebuild.points.id, of |-> "geometry"]},
                   !.pc = "material.dispose"]

\* points.material.dispose()
disposeMaterial ==
  /\ rebuild.pc = "material.dispose"
  /\ rebuild' = [rebuild EXCEPT
                   !.disposed = @ \cup {[id |-> rebuild.points.id, of |-> "material"]},
                   !.pc = "scene.remove"]

\* scene.remove(points)
sceneRemove ==
  /\ rebuild.pc = "scene.remove"
  /\ rebuild' = [rebuild EXCEPT
                   !.scene = SelectSeq(@, LAMBDA o : o # rebuild.points),
                   !.pc = "new Points"]

\* points = new THREE.Points(geom, mat)
newPoints ==
  /\ rebuild.pc = "new Points"
  /\ rebuild' = [rebuild EXCEPT !.points = rebuild.fresh, !.pc = "scene.add"]

\* scene.add(points); the rest of buildPoints writes uniforms only.
sceneAdd ==
  /\ rebuild.pc = "scene.add"
  /\ rebuild' = [rebuild EXCEPT !.scene = Append(@, rebuild.points), !.pc = "return"]

(* --------------------------- the vertex shader ------------------------- *)

\* Lengths, the blend factor's complement and every value in [0, 1] are held
\* in thousandths, pixel sizes and uniforms in hundredths, uTime and
\* uWaveSpeed in tenths. The element lies on the camera's axis at the signed
\* coordinate z, the wave centre at its origin (uWaveCenter = 0, modelMatrix
\* the identity) and the camera at camZ looking down the axis; randDir, a
\* unit vector, points along the axis. Wind is disabled and the glow mode is
\* 'wave' (uWindEnabled = 0, uGlowMode = 0), so that p is displaced by
\* scatter only and vPulse = wavePulse.

\* GLSL mix(x, y, a) = x * (1 - a) + y * a, a in ten-thousandths.
mix(x, y, a) == (x * (10000 - a) + y * a) \div 10000

\* What a GLSL implementation makes of smoothstep(edge0, edge1, x) when
\* edge0 >= edge1, which the language leaves undefined: the reference
\* expression clamp((x - edge0) / (edge1 - edge0), 0, 1), or the same with x
\* clamped to [edge0, edge1] first, min(max(x, edge0), edge1).
SmoothstepBuilds == {"reference", "clampFirst"}

\* smoothstep(edge0, edge1, x) for x = xNum / xDen and edges in hundredths,
\* as t * t * (3 - 2 * t) in thousandths, every quotient cut downwards.
smoothstep(edge0, edge1, xNum, xDen, build) ==
  LET cNum == IF build = "clampFirst"
                THEN Min(Max(xNum * 100, edge0 * xDen), edge1 * xDen)
                ELSE xNum * 100
      num == cNum - edge0 * xDen
      den == (edge1 - edge0) * xDen
      n == IF den > 0 THEN num ELSE 0 - num
      d == IF den > 0 THEN den ELSE 0 - den
      t == IF n <= 0 THEN 0 ELSE IF n >= d THEN 1000 ELSE (n * 1000) \div d
  IN  (((t * t) \div 1000) * (3000 - 2 * t)) \div 1000

\* floor(sqrt(x)) for x up to 1000 * 1000.
isqrt(x) == CHOOSE r \in 0..1000 : r * r <= x /\ (r + 1) * (r + 1) > x

\* pow(band, uBandGamma) for the exponents 1, 1.5 and 2.
pow(band, gamma) ==
  IF gamma = 100 THEN band
  ELSE IF gamma = 200 THEN (band * band) \div 1000
  ELSE (band * isqrt(band * 1000)) \div 1000

\* wavePulse of an element at radial distance coord from the wave centre:
\* phase = fract(coord / uWaveLength - uTime * uWaveSpeed), held as the
\* numerator over 100 * uWaveLength; distToFront = min(phase, 1 - phase);
\* band = smoothstep(uWaveWidth, 0.0, distToFront); pow(band, uBandGamma).
wavePulse(coord, u, build) ==
  LET den == 100 * u.uWaveLength
      phase == (100 * coord - u.uTime * u.uWaveSpeed * u.uWaveLength) % den
      distToFront == Min(phase, den - phase)
      band == smoothstep(u.uWaveWidth, 0, distToFront, den, build)
  IN  pow(band, u.uBandGamma)

\* scatterScale that reaches zero at a scatter amplitude of 1.
scatterScaleOverUnit(scatter) == Max(0, Min(1000, 1000 - scatter))

\* scatterScale = clamp(1.0 - (uScatterAmp / 0.5), 0.0, 1.0)
scatterScale(scatter) == Max(0, Min(1000, 1000 - 2 * scatter))

\* sizePx before scatterScale, for the element at z: basePx by uUseWorldSize
\* (uWorldSize * uPxPerUnit is pointSizePx * uSizeAttenRef, as the handlers
\* set uWorldSize), the pulse factor with uPulseAmp = 1.2, and atten.
sizeBeforeScatter(z, u, build) ==
  LET dist == Max(10, u.camZ - z)
      coord == IF z < 0 THEN 0 - z ELSE z
      basePx == IF u.uUseWorldSize = 100
                  THEN (u.uBaseSize * u.uSizeAttenRef) \div dist
                  ELSE u.uBaseSize
      atten == IF u.uSizeAttenEnabled = 100 /\ u.uUseWorldSize = 0
                 THEN Max(100, Min(4000, (u.uSizeAttenRef * 1000) \div dist))
                 ELSE 1000
      pulsed == (basePx * (1000 + (12 * wavePulse(coord, u, build)) \div 10)) \div 1000
  IN  (pulsed * atten) \div 1000

\* main() of the vertex shader for one element: p = mix(position,
\* morphPosition, morph) + randDir * uScatterAmp, vPulse at the displaced
\* point, and gl_PointSize = sizePx * scatterScale * uDPR (uDPR = 1).
vertexShader(u, scatter, build) ==
  LET z == mix(u.position, u.morphPosition, clamp(u.uMorph, 0, 10000))
             + u.randDir * scatter
  IN  [p |-> z,
       vPulse |-> wavePulse(IF z < 0 THEN 0 - z ELSE z, u, build),
       scatterScale |-> scatterScale(scatter),
       gl_PointSize |-> (sizeBeforeScatter(z, u, build) * scatterScale(scatter)) \div 1000]

\* The coordinate of vertex 0 of each prepared geometry along the axis; every
\* sample copies its element 0 from vertex 0.
FirstVertex(path) == IF path = models[1] THEN 400 ELSE 1200

\* What the shader reads for element 0 of the point set pts: its attributes,
\* and the uniforms of the material in the shader's units, at uTime = 0.
elementInputs(pts) ==
  [position |-> FirstVertex(pts.base), morphPosition |-> FirstVertex(pts.morphFrom),
   uMorph |-> pts.uMorph, randDir |-> 1, camZ |-> 2078, uSizeAttenRef |-> 2078,
   uBaseSize |-> pts.uBaseSize, uTime |-> 0,
   uWaveLength |-> pts.params.uWaveLength * 10,
   uWaveSpeed |-> pts.params.uWaveSpeed \div 10,
   uWaveWidth |-> pts.params.uWaveWidth, uBandGamma |-> pts.params.uBandGamma,
   uUseWorldSize |-> pts.params.uUseWorldSize,
   uSizeAttenEnabled |-> pts.params.uSizeAttenEnabled]

(* ------------------------------ post sizes ----------------------------- *)

\* Window sizes the browser may give the page.
Viewports == {<<800, 600>>, <<1024, 768>>}

\* Device pixel ratios (hundredths), below and above the cap of 1.5.
PixelRatios == {100, 200}

\* updatePostSizes that leaves the FXAA resolution as it was.
updatePostSizesKeepsFxaa(w, h, dpr, sizes) ==
  [sizes EXCEPT !.composer = <<w, h>>, !.bloom = <<w, h>>, !.edgeBlur = <<w, h>>]

\* updatePostSizes(): the composer, bloom and edge blur take the viewport;
\* FXAA takes 1 / (viewport * px), px = Math.min(devicePixelRatio, 1.5), held
\* here as the two denominators (hundredths of a pixel).
updatePostSizes(w, h, dpr, sizes) ==
  LET px == Min(dpr, 150)
  IN  [composer |-> <<w, h>>, bloom |-> <<w, h>>, edgeBlur |-> <<w, h>>,
       fxaa |-> <<w * px, h * px>>]

(* --------------------------- initial state ---------------------------- *)

InitLut ==
  /\ activeLutKey = "none"
  /\ lutLoadMap = [p \in Paths |-> Null]
  /\ lutIntensity = 100
  /\ lutPass = updateLutPass("none", [enabled |-> FALSE, intensity |-> 100, lut |-> Null], 100)
  /\ pending = {}
  /\ nextLoadId = 1
  /\ lastDispatched = {}
  /\ lastCall = [key |-> "none", load |-> 0]
  /\ lutErrors = {}

\* initPost(): every pass constructed, disabled, and added to the composer.
initPost ==
  /\ composerPasses = initPostPasses
  /\ bloomPass = [enabled |-> FALSE, strength |-> 60, radius |-> 40, threshold |-> 95]
  /\ bcPass = [enabled |-> FALSE, brightness |-> 0, contrast |-> 0]
  /\ hsPass = [enabled |-> FALSE, hue |-> 0, saturation |-> 0]
  /\ vignettePass = [enabled |-> FALSE, offset |-> 100, darkness |-> 60]
  /\ edgeBlurPass = [enabled |-> FALSE, maxRadius |-> 800, falloff |-> 160, strength |-> 100]
  /\ fxaaPass = [enabled |-> FALSE]

\* The viewer after the module has run: the first model's load is in flight,
\* initPost() has sized the stages, the page is at its top.
InitViewer(contents) ==
  /\ innerWidth = 800
  /\ innerHeight = 600
  /\ devicePixelRatio = 100
  /\ resizePending = FALSE
  /\ postSizes = updatePostSizes(800, 600, 100,
                   [composer |-> <<0, 0>>, bloom |-> <<0, 0>>,
                    edgeBlur |-> <<0, 0>>, fxaa |-> <<0, 0>>])
  /\ files = contents
  /\ modelIndex = 0
  /\ originalGeom = NoGeom
  /\ morphTargetGeom = NoGeom
  /\ points = NoPoints
  /\ keepRatio = 1800
  /\ morphAmount = 0
  /\ allowWheelMorph = FALSE
  /\ geomLoads = {[id |-> 1, kind |-> "model", path |-> models[1]]}
  /\ nextGeomLoad = 2
  /\ lastMorphCall = 0
  /\ lastEvent = [name |-> "init", dispatched |-> {}]
  /\ scene = <<>>
  /\ pointSizePx = 300
  /\ scatterAmp = 0
  /\ fogDensity = 120
  /\ lastParam = [n \in ParamNames |-> NoChange]
  /\ uiEvents = 0
  /\ squareMix = 0
  /\ fogEnabled = FALSE
  /\ background = "#000000"

\* No evaluation of the vertex shader under observation.
NoShade == [frames |-> MaxFrames]

\* No call of buildPoints followed statement by statement.
NoRebuild ==
  [pc |-> "return", builds |-> MaxRebuilds, scene |-> <<>>, points |-> NoObject,
   fresh |-> NoObject, disposed |-> {}]

\* No call of the resampler under observation.
NoSampleCall == [geom |-> NoGeom, targetCount |-> 0, result |-> NoSample, done |-> TRUE]

\* The two .ply files as one deployment holds them.
DeployedFiles ==
  [p \in ModelPaths |->
     IF p = "point/tree-bush.ply" THEN [count |-> 10000, hasColor |-> TRUE]
                                  ELSE [count |-> 3, hasColor |-> FALSE]]

Init ==
  /\ InitLut /\ initPost /\ events = 0
  /\ InitViewer(DeployedFiles)
  /\ sample = NoSampleCall
  /\ shade = NoShade
  /\ rebuild = NoRebuild

(* ---------------------- events of the grading model ------------------- *)

\* The preset <select>'s change handler: setLutPreset, then refreshUI.
OnLutChange ==
  \E key \in KeyInputs :
    /\ setLutPreset(key)
    /\ lastDispatched' = {}

\* The lutIntensity slider's input handler.
OnLutIntensityInput ==
  \E v \in IntensityInputs :
    /\ LutIntensityInput(v)
    /\ lastDispatched' = {}
    /\ UNCHANGED lastCall

\* A pending load completes. The loader hands onLoad a parsed table; a request
\* for the path `undefined` fetches no .cube file, so it can only end in onError.
OnLutLoaded ==
  \E load \in pending :
    /\ load.path # "undefined"
    /\ LutLoadSuccess(load)
    /\ pending' = pending \ {load}
    /\ lastDispatched' = {}
    /\ UNCHANGED <<nextLoadId, lastCall>>

OnLutFailed ==
  \E load \in pending :
    /\ LutLoadError(load)
    /\ pending' = pending \ {load}
    /\ UNCHANGED <<nextLoadId, lastCall>>

LutSelect == OnLutChange /\ UNCHANGED <<composerPasses, fxVars, events, viewVars>>

LutIntensity == OnLutIntensityInput /\ UNCHANGED <<composerPasses, fxVars, events, viewVars>>

LutLoaded == OnLutLoaded /\ UNCHANGED <<composerPasses, fxVars, events, viewVars>>

LutFailed == OnLutFailed /\ UNCHANGED <<composerPasses, fxVars, events, viewVars>>

NextLut == LutSelect \/ LutIntensity \/ LutLoaded \/ LutFailed

\* Every event of the grading model, loads succeeding or failing.
SpecLut == Init /\ [][NextLut]_vars

NextLutOk == LutSelect \/ LutIntensity \/ LutLoaded

\* The grading model in the runs where no load fails.
SpecLutOk == Init /\ [][NextLutOk]_vars

(* -------------------- events of the full event model ------------------ *)

\* One more event is handled.
Tick == events < MaxEvents /\ events' = events + 1 /\ UNCHANGED viewVars

KeydownPostFx ==
  /\ Tick
  /\ \E k \in PostFxKeys : PostFxKeydown(k)
  /\ UNCHANGED composerPasses

UiEdgeBlur ==
  Tick /\ (\E c \in BOOLEAN : OnEdgeBlurChange(c)) /\ UNCHANGED composerPasses

UiEdgeBlurAmt ==
  Tick /\ (\E v \in FxInputs : OnEdgeBlurAmtInput(v)) /\ UNCHANGED composerPasses

UiBloom ==
  Tick /\ (\E c \in BOOLEAN : OnBloomChange(c)) /\ UNCHANGED composerPasses

UiBloomStrength ==
  Tick /\ (\E v \in FxInputs : OnBloomStrengthInput(v)) /\ UNCHANGED composerPasses

UiVignette ==
  Tick /\ (\E c \in BOOLEAN : OnVignetteChange(c)) /\ UNCHANGED composerPasses

UiVignetteDark ==
  Tick /\ (\E v \in FxInputs : OnVignetteDarkInput(v)) /\ UNCHANGED composerPasses

UiBc ==
  Tick /\ (\E c \in BOOLEAN : OnBcChange(c)) /\ UNCHANGED composerPasses

UiContrast ==
  Tick /\ (\E v \in FxInputs : OnContrastInput(v)) /\ UNCHANGED composerPasses

UiBright ==
  Tick /\ (\E v \in FxInputs : OnBrightInput(v)) /\ UNCHANGED composerPasses

UiHs ==
  Tick /\ (\E c \in BOOLEAN : OnHsChange(c)) /\ UNCHANGED composerPasses

UiSat ==
  Tick /\ (\E v \in FxInputs : OnSatInput(v)) /\ UNCHANGED composerPasses

UiHue ==
  Tick /\ (\E v \in FxInputs : OnHueInput(v)) /\ UNCHANGED composerPasses

UiFxaa ==
  Tick /\ (\E c \in BOOLEAN : OnFxaaChange(c)) /\ UNCHANGED composerPasses

UiLut == Tick /\ OnLutChange /\ UNCHANGED <<composerPasses, fxVars>>

UiLutIntensity == Tick /\ OnLutIntensityInput /\ UNCHANGED <<composerPasses, fxVars>>

LoadCompletes == Tick /\ OnLutLoaded /\ UNCHANGED <<composerPasses, fxVars>>

LoadFails == Tick /\ OnLutFailed /\ UNCHANGED <<composerPasses, fxVars>>

Next ==
  \/ KeydownPostFx
  \/ UiEdgeBlur \/ UiEdgeBlurAmt
  \/ UiBloom \/ UiBloomStrength
  \/ UiVignette \/ UiVignetteDark
  \/ UiBc \/ UiContrast \/ UiBright
  \/ UiHs \/ UiSat \/ UiHue
  \/ UiFxaa
  \/ UiLut \/ UiLutIntensity
  \/ LoadCompletes \/ LoadFails

\* Every Post FX event: hotkeys, control-panel inputs, grading loads.
Spec == Init /\ [][Next]_vars

(* ------------------------- events of the viewer ------------------------ *)

\* Values the density slider sends (ten-thousandths), in and out of [0.02, 1].
DensityInputs == {100, 1800, 5000, 15000}

\* event.deltaY of a wheel event.
WheelDeltas == {-1000, 0, 1000}

\* event.deltaMode: pixels, lines, pages.
WheelModes == {0, 1, 2}

\* Wheel events. The handler reads shiftKey and deltaMode only for an event
\* it lets through with a delta other than zero, and the delta only for an
\* event it lets through: the events it treats alike are drawn once.
WheelInputs ==
  {e \in [overUi : BOOLEAN, modifier : BOOLEAN, shiftKey : BOOLEAN,
          deltaY : WheelDeltas, deltaMode : WheelModes] :
     /\ (e.overUi \/ e.modifier) => e.deltaY = 1000
     /\ (e.overUi \/ e.modifier \/ e.deltaY = 0) => (~e.shiftKey /\ e.deltaMode = 0)}

\* loader.load(path, ...): one more load in flight.
IssueGeomLoad(kind, path, loads) ==
  /\ nextGeomLoad <= MaxGeomLoads
  /\ geomLoads' = loads \cup {[id |-> nextGeomLoad, kind |-> kind, path |-> path]}
  /\ nextGeomLoad' = nextGeomLoad + 1

\* loadMorphTargetGeometry(path), called with the point set `pts` and the
\* blend factor `amount` its caller has just written, `loads` in flight.
loadMorphTargetGeometry(path, pts, amount, loads) ==
  /\ morphTargetGeom' = NoGeom
  /\ IF path = "null"
       THEN /\ allowWheelMorph' = FALSE
            /\ morphAmount' = clamp(0, 0, 10000)
            /\ points' = updateMorphUniform(pts, clamp(0, 0, 10000))
            /\ geomLoads' = loads
            /\ lastMorphCall' = 0
            /\ UNCHANGED nextGeomLoad
       ELSE /\ IssueGeomLoad("morph", path, loads)
            /\ lastMorphCall' = nextGeomLoad
            /\ morphAmount' = amount
            /\ points' = pts
            /\ UNCHANGED allowWheelMorph

\* The onLoad callback of loadModel(path). When buildPoints returns early and
\* no point set exists, new THREE.Box3().setFromObject(points) throws on null;
\* the loader catches what onLoad throws and hands it to onError, so the
\* callback ends there: no 'ui-refresh', no load of the morph target.
ModelLoadSuccess(load) ==
  LET geom == prepareGeometryForView(load, files)
      amount == clamp(0, 0, 10000)
      built == buildPoints(geom, morphTargetGeom, keepRatio, amount,
                           updateMorphUniform(points, amount),
                           globals(pointSizePx, scatterAmp, fogDensity))
  IN  /\ originalGeom' = geom
      /\ scene' = sceneAfterBuild(geom, scene)
      /\ IF built = NoPoints
           THEN /\ morphAmount' = amount
                /\ points' = built
                /\ geomLoads' = geomLoads \ {load}
                /\ lastEvent' = [name |-> "modelThrew", dispatched |-> {}]
                /\ UNCHANGED <<morphTargetGeom, allowWheelMorph, nextGeomLoad, lastMorphCall>>
           ELSE /\ loadMorphTargetGeometry(MORPH_PAIRS(load.path), built, amount,
                                           geomLoads \ {load})
                /\ lastEvent' = [name |-> "modelLoaded", dispatched |-> {"ui-refresh"}]
      /\ UNCHANGED <<files, modelIndex, keepRatio>>

\* The onError callback of loadModel(path): console.error only.
ModelLoadError(load) ==
  /\ geomLoads' = geomLoads \ {load}
  /\ lastEvent' = [name |-> "modelFailed", dispatched |-> {}]
  /\ UNCHANGED <<files, modelIndex, originalGeom, morphTargetGeom, points, keepRatio,
                 morphAmount, allowWheelMorph, nextGeomLoad, lastMorphCall, scene>>

\* The onLoad callback of loadMorphTargetGeometry(path); syncMorphToScroll
\* reads the scroll position and the document height.
MorphLoadSuccess(load, scrollTop, scrollHeight) ==
  LET geom == prepareGeometryForView(load, files)
      amount == clamp(scrollRatio(scrollTop, scrollHeight, innerHeight), 0, 10000)
  IN  /\ morphTargetGeom' = geom
      /\ allowWheelMorph' = TRUE
      /\ morphAmount' = amount
      /\ points' = buildPoints(originalGeom, geom, keepRatio, amount,
                               updateMorphUniform(points, amount),
                               globals(pointSizePx, scatterAmp, fogDensity))
      /\ scene' = sceneAfterBuild(originalGeom, scene)
      /\ geomLoads' = geomLoads \ {load}
      /\ lastEvent' = [name |-> "morphLoaded", dispatched |-> {}]
      /\ UNCHANGED <<files, modelIndex, originalGeom, keepRatio, nextGeomLoad,
                     lastMorphCall>>

\* The onError callback of loadMorphTargetGeometry that leaves the blend
\* factor as it was.
MorphLoadErrorKeepsAmount(load) ==
  /\ morphTargetGeom' = NoGeom
  /\ allowWheelMorph' = FALSE
  /\ geomLoads' = geomLoads \ {load}
  /\ lastEvent' = [name |-> "morphFailed", dispatched |-> {}]
  /\ UNCHANGED <<files, modelIndex, originalGeom, keepRatio, nextGeomLoad,
                 lastMorphCall, morphAmount, points, scene>>

\* The onError callback of loadMorphTargetGeometry(path).
MorphLoadError(load) ==
  /\ morphTargetGeom' = NoGeom
  /\ allowWheelMorph' = FALSE
  /\ morphAmount' = clamp(0, 0, 10000)
  /\ points' = updateMorphUniform(points, clamp(0, 0, 10000))
  /\ geomLoads' = geomLoads \ {load}
  /\ lastEvent' = [name |-> "morphFailed", dispatched |-> {}]
  /\ UNCHANGED <<files, modelIndex, originalGeom, keepRatio, nextGeomLoad,
                 lastMorphCall, scene>>

\* The model button's click handler: the next model, and loadModel of it.
OnModelClick ==
  /\ modelIndex' = (modelIndex + 1) % Len(models)
  /\ IssueGeomLoad("model", models[modelIndex' + 1], geomLoads)
  /\ lastEvent' = [name |-> "modelClick", dispatched |-> {}]
  /\ UNCHANGED <<files, originalGeom, morphTargetGeom, points, keepRatio, morphAmount,
                 allowWheelMorph, lastMorphCall, scene>>

\* The density slider's input handler.
OnDensityInput(v) ==
  /\ keepRatio' = Max(200, Min(10000, v))
  /\ points' = buildPoints(originalGeom, morphTargetGeom, keepRatio', morphAmount, points,
                           globals(pointSizePx, scatterAmp, fogDensity))
  /\ scene' = sceneAfterBuild(originalGeom, scene)
  /\ lastEvent' = [name |-> "density", dispatched |-> {}]
  /\ UNCHANGED <<files, modelIndex, originalGeom, morphTargetGeom, morphAmount,
                 allowWheelMorph, geomLoads, nextGeomLoad, lastMorphCall>>

\* Values the point-size slider sends (hundredths), in and out of [0.5, 12].
PsizeInputs == {10, 300, 5000}

\* Values the scatter slider sends (thousandths), in and out of [0, 1].
ScatterInputs == {-500, 250, 3000}

\* Values the fog-density slider sends (thousandths), in and out of [0, 2].
FogDensityInputs == {-50, 1000, 2500}

\* The point-size slider's input handler (its update of uWorldSize, a
\* uniform the model does not hold, left out).
OnPsizeInput(v) ==
  /\ pointSizePx' = Max(50, Min(1200, v))
  /\ points' = buildPoints(originalGeom, morphTargetGeom, keepRatio, morphAmount, points,
                           globals(pointSizePx', scatterAmp, fogDensity))
  /\ scene' = sceneAfterBuild(originalGeom, scene)
  /\ lastEvent' = [name |-> "psize", dispatched |-> {}]
  /\ UNCHANGED <<files, modelIndex, originalGeom, morphTargetGeom, keepRatio, morphAmount,
                 allowWheelMorph, geomLoads, nextGeomLoad, lastMorphCall>>
  /\ UNCHANGED <<scatterAmp, fogDensity, lastParam, uiEvents>>

\* The scatter slider's input handler.
OnScatterInput(v) ==
  /\ scatterAmp' = Max(0, Min(1000, v))
  /\ points' = IF points = NoPoints THEN points
                ELSE [points EXCEPT !.uScatterAmp = scatterAmp']
  /\ lastEvent' = [name |-> "scatter", dispatched |-> {}]
  /\ UNCHANGED <<files, modelIndex, originalGeom, morphTargetGeom, keepRatio, morphAmount,
                 allowWheelMorph, geomLoads, nextGeomLoad, lastMorphCall, scene>>
  /\ UNCHANGED <<pointSizePx, fogDensity, lastParam, uiEvents>>

\* The fog-density slider's input handler: the clamp, then updateFog().
OnFogDensityInput(v) ==
  /\ fogDensity' = Max(0, Min(2000, v))
  /\ points' = updateFog(points, fogEnabled, fogDensity', background)
  /\ squareMix' = squareMixRead(points)
  /\ lastEvent' = [name |-> "fogDensity", dispatched |-> {}]
  /\ UNCHANGED <<files, modelIndex, originalGeom, morphTargetGeom, keepRatio, morphAmount,
                 allowWheelMorph, geomLoads, nextGeomLoad, lastMorphCall, scene>>
  /\ UNCHANGED <<pointSizePx, scatterAmp, lastParam, uiEvents>>

\* Values the square-mix slider sends (thousandths), in and out of [0, 1].
SquareInputs == {-200, 400, 1500}

\* Values the background colour input sends; an empty value stands for black.
BgInputs == {"", "#336699"}

\* The square-mix slider's input handler.
OnSquareInput(v) ==
  /\ squareMix' = Max(0, Min(1000, v))
  /\ points' = IF points = NoPoints THEN points
                ELSE [points EXCEPT !.uSquareMix = squareMix']
  /\ lastEvent' = [name |-> "square", dispatched |-> {}]
  /\ UNCHANGED <<files, modelIndex, originalGeom, morphTargetGeom, keepRatio, morphAmount,
                 allowWheelMorph, geomLoads, nextGeomLoad, lastMorphCall, scene>>
  /\ UNCHANGED <<paramVars, fogEnabled, background>>

\* The fog checkbox's change handler: fogEnabled, then updateFog().
OnFogChange(checked) ==
  /\ fogEnabled' = checked
  /\ points' = updateFog(points, fogEnabled', fogDensity, background)
  /\ squareMix' = squareMixRead(points)
  /\ lastEvent' = [name |-> "fog", dispatched |-> {}]
  /\ UNCHANGED <<files, modelIndex, originalGeom, morphTargetGeom, keepRatio, morphAmount,
                 allowWheelMorph, geomLoads, nextGeomLoad, lastMorphCall, scene>>
  /\ UNCHANGED <<paramVars, background>>

\* The background colour's input handler: scene.background.set(hex), then
\* updateFog().
OnBgInput(v) ==
  /\ background' = IF v = "" THEN "#000000" ELSE v
  /\ points' = updateFog(points, fogEnabled, fogDensity, background')
  /\ squareMix' = squareMixRead(points)
  /\ lastEvent' = [name |-> "bg", dispatched |-> {}]
  /\ UNCHANGED <<files, modelIndex, originalGeom, morphTargetGeom, keepRatio, morphAmount,
                 allowWheelMorph, geomLoads, nextGeomLoad, lastMorphCall, scene>>
  /\ UNCHANGED <<paramVars, fogEnabled>>

\* Keys of the viewer's keydown handler that resample or resize the points.
ResampleKeys == {"-", "=", "[", "]"}

\* Keys of the viewer's keydown handler that toggle a uniform, and the
\* uniform each toggles.
ToggleKeys == {"t", "a", "w"}

ToggledBy(key) ==
  IF key = "t" THEN "uWindEnabled"
  ELSE IF key = "a" THEN "uSizeAttenEnabled" ELSE "uUseWorldSize"

\* The keydown handler that lowers keepRatio and pointSizePx without a floor.
OnViewerKeydownNoFloor(key) ==
  LET ratio == IF key = "-" THEN (keepRatio * 8) \div 10
               ELSE IF key = "=" THEN Min(10000, (keepRatio * 10) \div 8)
               ELSE keepRatio
      size == IF key = "[" THEN (pointSizePx * 9) \div 10
              ELSE IF key = "]" THEN Min(1200, (pointSizePx * 10) \div 9)
              ELSE pointSizePx
      toggled == [points EXCEPT !.params[ToggledBy(key)] = IF @ > 50 THEN 0 ELSE 100]
  IN  /\ uiEvents < MaxUiEvents
      /\ uiEvents' = uiEvents + 1
      /\ lastEvent' = [name |-> "keydown", dispatched |-> {}]
      /\ UNCHANGED <<files, modelIndex, morphTargetGeom, morphAmount, originalGeom,
                     allowWheelMorph, geomLoads, nextGeomLoad, lastMorphCall>>
      /\ UNCHANGED <<scatterAmp, fogDensity>>
      /\ IF originalGeom = NoGeom
           THEN UNCHANGED <<keepRatio, pointSizePx, points, scene, lastParam>>
         ELSE IF key \in ResampleKeys
           THEN /\ keepRatio' = ratio
                /\ pointSizePx' = size
                /\ points' = buildPoints(originalGeom, morphTargetGeom, ratio, morphAmount,
                                         points, globals(size, scatterAmp, fogDensity))
                /\ scene' = sceneAfterBuild(originalGeom, scene)
                /\ UNCHANGED lastParam
         ELSE IF points # NoPoints
           THEN /\ points' = toggled
                /\ lastParam' = [lastParam EXCEPT ![ToggledBy(key)] =
                                   [changed |-> TRUE, value |-> toggled.params[ToggledBy(key)]]]
                /\ UNCHANGED <<keepRatio, pointSizePx, scene>>
         ELSE UNCHANGED <<keepRatio, pointSizePx, points, scene, lastParam>>

\* The viewer's keydown handler: nothing before the first model has loaded;
\* '-' and '=' scale keepRatio by 0.8 and 1 / 0.8, '[' and ']' scale
\* pointSizePx by 0.9 and 1 / 0.9, each clamped and followed by buildPoints();
\* 't', 'a' and 'w' toggle a uniform of the point set, when there is one.
\* Products are cut to the unit of the model. The update of uWorldSize and
\* uPxPerUnit, uniforms the model does not hold, is left out.
OnViewerKeydown(key) ==
  LET ratio == IF key = "-" THEN Max(200, (keepRatio * 8) \div 10)
               ELSE IF key = "=" THEN Min(10000, (keepRatio * 10) \div 8)
               ELSE keepRatio
      size == IF key = "[" THEN Max(50, (pointSizePx * 9) \div 10)
              ELSE IF key = "]" THEN Min(1200, (pointSizePx * 10) \div 9)
              ELSE pointSizePx
      toggled == [points EXCEPT !.params[ToggledBy(key)] = IF @ > 50 THEN 0 ELSE 100]
  IN  /\ uiEvents < MaxUiEvents
      /\ uiEvents' = uiEvents + 1
      /\ lastEvent' = [name |-> "keydown", dispatched |-> {}]
      /\ UNCHANGED <<files, modelIndex, morphTargetGeom, morphAmount, originalGeom,
                     allowWheelMorph, geomLoads, nextGeomLoad, lastMorphCall>>
      /\ UNCHANGED <<scatterAmp, fogDensity>>
      /\ IF originalGeom = NoGeom
           THEN UNCHANGED <<keepRatio, pointSizePx, points, scene, lastParam>>
         ELSE IF key \in ResampleKeys
           THEN /\ keepRatio' = ratio
                /\ pointSizePx' = size
                /\ points' = buildPoints(originalGeom, morphTargetGeom, ratio, morphAmount,
                                         points, globals(size, scatterAmp, fogDensity))
                /\ scene' = sceneAfterBuild(originalGeom, scene)
                /\ UNCHANGED lastParam
         ELSE IF points # NoPoints
           THEN /\ points' = toggled
                /\ lastParam' = [lastParam EXCEPT ![ToggledBy(key)] =
                                   [changed |-> TRUE, value |-> toggled.params[ToggledBy(key)]]]
                /\ UNCHANGED <<keepRatio, pointSizePx, scene>>
         ELSE UNCHANGED <<keepRatio, pointSizePx, points, scene, lastParam>>

\* Values the controls of the animation parameters send (hundredths): a
\* checkbox 0.0 or 1.0, a slider a value that is no default.
UniformInputs(name) ==
  IF name \in {"uWindEnabled", "uUseWorldSize", "uSizeAttenEnabled"}
    THEN {0, 100} ELSE {200}

\* The input or change handler of a wind, wave, world-size or attenuation
\* control: const u = getU(); if (!u) return; u.<name>.value = the control's
\* value. (The world-size handler's update of uPxPerUnit and uWorldSize is
\* left out.)
OnUniformInput(name, v) ==
  /\ uiEvents < MaxUiEvents
  /\ uiEvents' = uiEvents + 1
  /\ points' = IF points = NoPoints THEN points
                ELSE [points EXCEPT !.params[name] = v]
  /\ lastParam' = [lastParam EXCEPT ![name] = [changed |-> TRUE, value |-> v]]
  /\ lastEvent' = [name |-> "uniform", dispatched |-> {}]
  /\ UNCHANGED <<files, modelIndex, originalGeom, morphTargetGeom, keepRatio, morphAmount,
                 allowWheelMorph, geomLoads, nextGeomLoad, lastMorphCall, scene>>
  /\ UNCHANGED <<pointSizePx, scatterAmp, fogDensity>>

\* A wheel event as its handler leaves it: whether preventDefault() and
\* stopPropagation() / stopImmediatePropagation() were called on it.
WheelEvent(suppressed) ==
  [name |-> "wheel", dispatched |-> {}, defaultPrevented |-> suppressed,
   propagationStopped |-> suppressed]

\* The wheel step that ignores the shift key.
wheelStepIgnoresShift(shiftKey, deltaMode) ==
  IF deltaMode = 1 THEN 400 ELSE IF deltaMode = 2 THEN 10000 ELSE 7

\* baseStep and step of handleWheelForMorph (ten-thousandths per unit of
\* delta): 0.04 per line, 1.0 per page, 0.0007 per pixel, tripled with shift.
wheelStep(shiftKey, deltaMode) ==
  LET baseStep == IF deltaMode = 1 THEN 400 ELSE IF deltaMode = 2 THEN 10000 ELSE 7
  IN  IF shiftKey THEN baseStep * 3 ELSE baseStep

\* handleWheelForMorph that suppresses the event only when the blend factor
\* is about to change.
handleWheelForMorphSuppressesLate(overUi, modifier, shiftKey, deltaY, deltaMode) ==
  LET amount == clamp(morphAmount + deltaY * wheelStep(shiftKey, deltaMode), 0, 10000)
      handled == allowWheelMorph /\ ~overUi /\ ~modifier /\ deltaY # 0
  IN  /\ lastEvent' = WheelEvent(handled)
      /\ morphAmount' = IF handled THEN amount ELSE morphAmount
      /\ points' = IF handled THEN updateMorphUniform(points, amount) ELSE points
      /\ UNCHANGED <<files, modelIndex, originalGeom, morphTargetGeom, keepRatio,
                     allowWheelMorph, geomLoads, nextGeomLoad, lastMorphCall, scene>>

\* handleWheelForMorph(event): overUi stands for a target inside the panel,
\* the panel toggle or a form control, modifier for alt, ctrl or meta. The
\* early returns come before preventDefault(); the test of the delta comes
\* after it.
handleWheelForMorph(overUi, modifier, shiftKey, deltaY, deltaMode) ==
  LET amount == clamp(morphAmount + deltaY * wheelStep(shiftKey, deltaMode), 0, 10000)
      suppressed == allowWheelMorph /\ ~overUi /\ ~modifier
      handled == suppressed /\ deltaY # 0
  IN  /\ lastEvent' = WheelEvent(suppressed)
      /\ morphAmount' = IF handled THEN amount ELSE morphAmount
      /\ points' = IF handled THEN updateMorphUniform(points, amount) ELSE points
      /\ UNCHANGED <<files, modelIndex, originalGeom, morphTargetGeom, keepRatio,
                     allowWheelMorph, geomLoads, nextGeomLoad, lastMorphCall, scene>>

\* syncMorphToScroll() as the scroll listener.
syncMorphToScroll(scrollTop, scrollHeight) ==
  LET amount == clamp(scrollRatio(scrollTop, scrollHeight, innerHeight), 0, 10000)
  IN  /\ morphAmount' = amount
      /\ points' = updateMorphUniform(points, amount)
      /\ lastEvent' = [name |-> "scroll", dispatched |-> {}]
      /\ UNCHANGED <<files, modelIndex, originalGeom, morphTargetGeom, keepRatio,
                     allowWheelMorph, geomLoads, nextGeomLoad, lastMorphCall, scene>>

\* The browser gives the window another size; the resize event is queued.
ViewportChange(w, h, dpr) ==
  /\ <<w, h>> # <<innerWidth, innerHeight>>
  /\ innerWidth' = w
  /\ innerHeight' = h
  /\ devicePixelRatio' = dpr
  /\ resizePending' = TRUE
  /\ lastEvent' = [name |-> "viewport", dispatched |-> {}]
  /\ UNCHANGED <<postSizes, geomVars>>

\* The resize listener: the stages are resized, then syncMorphToScroll().
OnResize(scrollTop, scrollHeight) ==
  LET amount == clamp(scrollRatio(scrollTop, scrollHeight, innerHeight), 0, 10000)
  IN  /\ resizePending
      /\ postSizes' = updatePostSizes(innerWidth, innerHeight, devicePixelRatio, postSizes)
      /\ resizePending' = FALSE
      /\ morphAmount' = amount
      /\ points' = updateMorphUniform(points, amount)
      /\ lastEvent' = [name |-> "resize", dispatched |-> {}]
      /\ UNCHANGED <<innerWidth, innerHeight, devicePixelRatio, files, modelIndex,
                     originalGeom, morphTargetGeom, keepRatio, allowWheelMorph,
                     geomLoads, nextGeomLoad, lastMorphCall>>

\* animate(): one frame rendered through the composer. The browser runs the
\* resize steps of a rendering update before its animation-frame callbacks,
\* so no frame is rendered between a change of the viewport and the resize
\* listener.
animate ==
  /\ ~resizePending
  /\ lastEvent' = [name |-> "animate", dispatched |-> {}]
  /\ UNCHANGED <<viewportVars, geomVars>>

ModelLoaded ==
  /\ \E load \in geomLoads : load.kind = "model" /\ ModelLoadSuccess(load)
  /\ UNCHANGED <<postVars, viewportVars, sample, paramVars, mirrorVars, shade, rebuild>>

ModelFailed ==
  /\ \E load \in geomLoads : load.kind = "model" /\ ModelLoadError(load)
  /\ UNCHANGED <<postVars, viewportVars, sample, paramVars, mirrorVars, shade, rebuild>>

MorphLoaded ==
  /\ \E load \in geomLoads, scrollTop \in ScrollTops, scrollHeight \in ScrollHeights :
       load.kind = "morph" /\ MorphLoadSuccess(load, scrollTop, scrollHeight)
  /\ UNCHANGED <<postVars, viewportVars, sample, paramVars, mirrorVars, shade, rebuild>>

MorphFailed ==
  /\ \E load \in geomLoads : load.kind = "morph" /\ MorphLoadError(load)
  /\ UNCHANGED <<postVars, viewportVars, sample, paramVars, mirrorVars, shade, rebuild>>

ModelClick == OnModelClick /\ UNCHANGED <<postVars, viewportVars, sample, paramVars, mirrorVars, shade, rebuild>>

Density ==
  /\ \E v \in DensityInputs : OnDensityInput(v)
  /\ UNCHANGED <<postVars, viewportVars, sample, paramVars, mirrorVars, shade, rebuild>>

Wheel ==
  /\ \E e \in WheelInputs :
       handleWheelForMorph(e.overUi, e.modifier, e.shiftKey, e.deltaY, e.deltaMode)
  /\ UNCHANGED <<postVars, viewportVars, sample, paramVars, mirrorVars, shade, rebuild>>

Scroll ==
  /\ \E scrollTop \in ScrollTops, scrollHeight \in ScrollHeights :
       syncMorphToScroll(scrollTop, scrollHeight)
  /\ UNCHANGED <<postVars, viewportVars, sample, paramVars, mirrorVars, shade, rebuild>>

WindowResized ==
  /\ \E vp \in Viewports, dpr \in PixelRatios : ViewportChange(vp[1], vp[2], dpr)
  /\ UNCHANGED <<postVars, sample, scene, paramVars, mirrorVars, shade, rebuild>>

Resize ==
  /\ \E scrollTop \in ScrollTops, scrollHeight \in ScrollHeights :
       OnResize(scrollTop, scrollHeight)
  /\ UNCHANGED <<postVars, sample, scene, paramVars, mirrorVars, shade, rebuild>>

Frame == animate /\ UNCHANGED <<postVars, sample, scene, paramVars, mirrorVars, shade, rebuild>>

NextGeom ==
  \/ ModelLoaded \/ ModelFailed \/ MorphLoaded \/ MorphFailed
  \/ ModelClick \/ Density \/ Wheel \/ Scroll

\* The viewer with any contents of the two .ply files.
InitGeom ==
  /\ InitLut /\ initPost /\ events = 0
  /\ \E contents \in [ModelPaths -> FileContents] : InitViewer(contents)
  /\ sample = NoSampleCall
  /\ shade = NoShade
  /\ rebuild = NoRebuild

\* Geometry of the viewer: loads, the model button, the density slider, wheel
\* and scroll, over any contents of the files and a window that keeps its size.
SpecGeom == InitGeom /\ [][NextGeom]_vars

NextBuild ==
  \/ ModelLoaded \/ ModelFailed \/ MorphLoaded \/ MorphFailed
  \/ ModelClick \/ Density

\* Every caller of buildPoints but the hotkeys, over any contents of the
\* files, the page left unscrolled by the user.
SpecBuild == InitGeom /\ [][NextBuild]_vars

NextMorph ==
  \/ ModelLoaded \/ ModelFailed \/ MorphLoaded \/ MorphFailed
  \/ ModelClick \/ Wheel \/ Scroll
  \/ WindowResized \/ Resize

\* The morph controller: every event that writes the blend factor or the
\* morph target, resize included, at the default density.
SpecMorph == Init /\ [][NextMorph]_vars

Psize ==
  /\ \E v \in PsizeInputs : OnPsizeInput(v)
  /\ UNCHANGED <<postVars, viewportVars, sample, mirrorVars, shade, rebuild>>

Scatter ==
  /\ \E v \in ScatterInputs : OnScatterInput(v)
  /\ UNCHANGED <<postVars, viewportVars, sample, mirrorVars, shade, rebuild>>

FogDensity ==
  /\ \E v \in FogDensityInputs : OnFogDensityInput(v)
  /\ UNCHANGED <<postVars, viewportVars, sample, fogEnabled, background, shade, rebuild>>

KeydownResample ==
  /\ \E key \in ResampleKeys : OnViewerKeydown(key)
  /\ UNCHANGED <<postVars, viewportVars, sample, mirrorVars, shade, rebuild>>

KeydownToggle ==
  /\ \E key \in ToggleKeys : OnViewerKeydown(key)
  /\ UNCHANGED <<postVars, viewportVars, sample, mirrorVars, shade, rebuild>>

UniformInput ==
  /\ \E name \in ParamNames : \E v \in UniformInputs(name) : OnUniformInput(name, v)
  /\ UNCHANGED <<postVars, viewportVars, sample, mirrorVars, shade, rebuild>>

Square ==
  /\ \E v \in SquareInputs : OnSquareInput(v)
  /\ UNCHANGED <<postVars, viewportVars, sample, shade, rebuild>>

Fog ==
  /\ \E checked \in BOOLEAN : OnFogChange(checked)
  /\ UNCHANGED <<postVars, viewportVars, sample, shade, rebuild>>

Bg ==
  /\ \E v \in BgInputs : OnBgInput(v)
  /\ UNCHANGED <<postVars, viewportVars, sample, shade, rebuild>>

NextClamp ==
  \/ ModelLoaded \/ ModelFailed
  \/ Density \/ Psize \/ Scatter \/ FogDensity \/ KeydownResample

\* The clamped parameters: their sliders and hotkeys, before and after the
\* first model has loaded.
SpecClamp == Init /\ [][NextClamp]_vars

NextUniforms ==
  \/ ModelLoaded \/ ModelFailed
  \/ Density \/ UniformInput \/ KeydownToggle \/ Frame

\* The animation parameters: their controls and hotkeys, rebuilds of the
\* point set, and frames.
SpecUniforms == Init /\ [][NextUniforms]_vars

\* Files for the scene: one with coloured vertices, and one whose header
\* declares no vertex, for which the loader sets no position attribute.
SceneFiles == {[count |-> 10000, hasColor |-> TRUE], [count |-> 0, hasColor |-> FALSE]}

InitScene ==
  /\ InitLut /\ initPost /\ events = 0
  /\ \E contents \in [ModelPaths -> SceneFiles] : InitViewer(contents)
  /\ sample = NoSampleCall
  /\ shade = NoShade
  /\ rebuild = NoRebuild

NextScene ==
  \/ ModelLoaded \/ ModelFailed \/ MorphLoaded \/ MorphFailed
  \/ ModelClick \/ Density \/ Psize \/ Frame

\* The scene's point set over every call of buildPoints, with files that
\* hold vertices and files that hold none.
SpecScene == InitScene /\ [][NextScene]_vars

\* Contents of the model files for the mirrored parameters: the deployed
\* files, and the same files with a "point/tree-bush.ply" that holds no vertex.
MirrorFiles ==
  {DeployedFiles,
   [DeployedFiles EXCEPT !["point/tree-bush.ply"] = [count |-> 0, hasColor |-> FALSE]]}

InitMirror ==
  /\ InitLut /\ initPost /\ events = 0
  /\ \E contents \in MirrorFiles : InitViewer(contents)
  /\ sample = NoSampleCall
  /\ shade = NoShade
  /\ rebuild = NoRebuild

NextMirror ==
  \/ ModelLoaded \/ ModelFailed \/ MorphLoaded \/ MorphFailed \/ ModelClick
  \/ Psize \/ Square \/ Fog \/ Bg

\* The parameters mirrored into uniforms: the point-size, square-mix, fog and
\* background controls, loads and rebuilds.
SpecMirror == InitMirror /\ [][NextMirror]_vars

NextBlend ==
  \/ ModelLoaded \/ ModelFailed \/ MorphLoaded \/ MorphFailed
  \/ ModelClick \/ Scroll \/ KeydownToggle

\* The blend of the rendered set: loads, model switches, scrolling, and the
\* hotkeys that disable wind.
SpecBlend == Init /\ [][NextBlend]_vars

NextWheel ==
  \/ ModelLoaded \/ ModelFailed \/ MorphLoaded \/ MorphFailed
  \/ ModelClick \/ Wheel

\* The wheel handler among the loads that allow and disallow wheel morphing,
\* in a window that keeps its size and is scrolled only while a load ends.
SpecWheel == Init /\ [][NextWheel]_vars

NextScroll ==
  \/ ModelLoaded \/ ModelFailed \/ MorphLoaded \/ MorphFailed
  \/ Wheel \/ Scroll \/ WindowResized \/ Resize

\* Scroll and resize events among wheel events, before and after the first
\* model and its morph target have loaded.
SpecScroll == Init /\ [][NextScroll]_vars

NextSwitch == ModelLoaded \/ MorphLoaded \/ MorphFailed \/ ModelClick

\* Model switches over the deployed files when every model load succeeds:
\* the loads complete in any order, a morph target may fail to load.
SpecSwitch == Init /\ [][NextSwitch]_vars

NextResize == WindowResized \/ Resize \/ Frame \/ Scroll

\* Resizes and frames while the first model is still loading.
SpecResize == Init /\ [][NextResize]_vars

(* ------------------------ the resampler on its own --------------------- *)

\* One call of sampleGeometryAttributes on the observed arguments.
Sample ==
  /\ ~sample.done
  /\ sample' = [sample EXCEPT
                  !.result = sampleGeometryAttributes(sample.geom, sample.targetCount),
                  !.done = TRUE]
  /\ UNCHANGED <<postVars, viewportVars, geomVars, lastEvent, scene, paramVars, mirrorVars, shade, rebuild>>

\* Any small geometry and any target count, zero included.
InitSample ==
  /\ InitLut /\ initPost /\ events = 0
  /\ InitViewer(DeployedFiles)
  /\ \E n \in 1..MaxSrc, c \in BOOLEAN, t \in 0..MaxTarget :
       sample = [geom |-> [path |-> "sample", count |-> n, hasColor |-> c],
                 targetCount |-> t, result |-> NoSample, done |-> FALSE]
  /\ shade = NoShade
  /\ rebuild = NoRebuild

SpecSample == InitSample /\ [][Sample]_vars

(* ---------------------- the vertex shader on its own ------------------- *)

\* Positions of an element along the axis, before and after morphing.
Positions == {360, 400, 600, 960, 1200}

\* uScatterAmp at a frame: values the scatter slider's clamp lets through.
ScatterSteps == {0, 100, 250, 450, 500, 1000}

\* The attributes of one element and the uniforms of its material: the
\* camera at the framing distance of loadModel for a model two units wide
\* (uSizeAttenRef), the point size and the wave width at their defaults.
ShaderInputs ==
  [position : Positions, morphPosition : {400, 1200}, uMorph : {0, 5000, 10000},
   randDir : {-1, 1}, camZ : {2078}, uSizeAttenRef : {2078}, uBaseSize : {300},
   uTime : {0, 10}, uWaveLength : {600, 900}, uWaveSpeed : {6}, uWaveWidth : {15},
   uBandGamma : {100, 150},
   uUseWorldSize : {0, 100}, uSizeAttenEnabled : {0, 100}]

\* One frame: main() runs for the element with uScatterAmp = scatter, which
\* is no lower than at the frame before.
ShadeVertex ==
  /\ shade.frames < MaxFrames
  /\ \E scatter \in ScatterSteps :
       /\ shade.frames > 0 => scatter >= shade.scatter
       /\ shade' = [shade EXCEPT
                      !.frames = @ + 1,
                      !.scatter = scatter,
                      !.out = vertexShader(shade.u, scatter, shade.build),
                      !.prevScatter = shade.scatter,
                      !.prev = shade.out]
  /\ UNCHANGED <<postVars, viewportVars, geomVars, lastEvent, sample, scene, paramVars, mirrorVars,
                 rebuild>>

\* Any element, any of the uniforms above, either outcome of smoothstep.
InitShader ==
  /\ InitLut /\ initPost /\ events = 0
  /\ InitViewer(DeployedFiles)
  /\ sample = NoSampleCall
  /\ rebuild = NoRebuild
  /\ \E u \in ShaderInputs, build \in SmoothstepBuilds :
       /\ u.uUseWorldSize = 100 => u.uSizeAttenEnabled = 0
       /\ shade = [u |-> u, build |-> build, frames |-> 0, scatter |-> 0,
                   out |-> vertexShader(u, 0, build),
                   prevScatter |-> 0, prev |-> vertexShader(u, 0, build)]

SpecShader == InitShader /\ [][ShadeVertex]_vars

(* -------------------- buildPoints statement by statement --------------- *)

RebuildEnter ==
  /\ \E orig \in RebuildGeoms, ratio \in RebuildRatios : buildPointsEnter(orig, ratio)
  /\ UNCHANGED <<postVars, viewportVars, geomVars, lastEvent, sample, scene, paramVars, mirrorVars,
                 shade>>

RebuildStatement ==
  /\ disposeGeometry \/ disposeMaterial \/ sceneRemove \/ newPoints \/ sceneAdd
  /\ UNCHANGED <<postVars, viewportVars, geomVars, lastEvent, sample, scene, paramVars, mirrorVars,
                 shade>>

\* No point set yet, no call of buildPoints made.
InitRebuild ==
  /\ InitLut /\ initPost /\ events = 0
  /\ InitViewer(DeployedFiles)
  /\ sample = NoSampleCall
  /\ shade = NoShade
  /\ rebuild = [NoRebuild EXCEPT !.builds = 0]

\* Calls of buildPoints one after another, each run to its return: the
\* handlers that call it run to completion.
SpecRebuild == InitRebuild /\ [][RebuildEnter \/ RebuildStatement]_vars

(* ------------------------------ claims -------------------------------- *)

\* A step is the failure of `load` when it takes the load out of `pending`
\* and writes nothing to the cache (onLoad always writes a fresh texture).
IsFailureOf(load) ==
  /\ load \in pending
  /\ pending' = pending \ {load}
  /\ lutLoadMap' = lutLoadMap

\* A load is superseded once a later setLutPreset call has been made.
Superseded(load) == load.id # lastCall.load

\* C1: with A's load outstanding, A not cached and another preset B selected,
\* no step (the completion of A's load included) leaves A's resource bound;
\* and once the selected preset B has no load outstanding, the bound resource
\* is B's.
GradingSelectionRace ==
  /\ [][\A la \in pending :
          (la.key # activeLutKey /\ lutLoadMap[la.path] = Null)
            => lutPass'.lut.path # la.path]_vars
  /\ [](\A b \in PresetNames :
          (activeLutKey = b /\ lastCall.key = b /\ \A l \in pending : l.key # b)
            => lutPass.lut.path = PresetPath(b))

\* Two loads were issued, warm's first and green's second, both have
\* completed, and green's texture is the one bound.
RaceBothCompleted ==
  /\ pending = {}
  /\ lastCall = [key |-> "green", load |-> 2]
  /\ lutLoadMap[PresetPath("warm")].id = 1
  /\ lutPass.lut = [path |-> PresetPath("green"), id |-> 2]

\* C2: when every load succeeds, once no load is outstanding the bound
\* resource is that of the preset selected last, and nothing is bound when
\* the last selection was not a preset.
LastSelectionWins ==
  pending = {} =>
    IF lastCall.key \in PresetNames
      THEN lutPass.lut # Null /\ lutPass.lut.path = PresetPath(lastCall.key)
      ELSE lutPass.lut = Null

\* All the loads the bound allows were issued and have completed, for more
\* than one preset, and a preset is bound.
AllLoadsCompleted ==
  /\ pending = {}
  /\ nextLoadId > 2
  /\ lutPass.lut # Null
  /\ \E p \in Paths : lutLoadMap[p] # Null /\ p # lutPass.lut.path

\* C3: the grading pass is enabled exactly when a resource is bound, the
\* intensity is above zero and the selection is not 'none'.
LutEnabledIff ==
  lutPass.enabled <=>
    (lutPass.lut # Null /\ lutIntensity > 0 /\ activeLutKey # "none")

\* The pass is enabled with the previous preset's resource while the load of
\* the newly selected preset is outstanding.
EnabledWhileLoadPending ==
  /\ lutPass.enabled
  /\ \E l \in pending : l.key = activeLutKey /\ l.path # lutPass.lut.path

\* C4: the failure of the load of the preset that is still selected leaves
\* the selection 'none', nothing bound, the pass disabled, and dispatches
\* 'ui-refresh'.
FailureOfActiveReverts ==
  [][\A load \in pending :
       (IsFailureOf(load) /\ activeLutKey = load.key)
         => /\ activeLutKey' = "none"
            /\ lutPass'.lut = Null
            /\ ~lutPass'.enabled
            /\ "ui-refresh" \in lastDispatched']_vars

\* A failure has just reverted a preset selection; another preset's texture
\* is in the cache, so a texture could have been bound before the failure.
RevertedAfterFailure ==
  /\ lastDispatched = {"ui-refresh"}
  /\ lastCall.key \in PresetNames
  /\ activeLutKey = "none"
  /\ \E p \in Paths : lutLoadMap[p] # Null

\* C5 (as claimed): the failure of a superseded load leaves the selection,
\* the bound resource and the enabled flag as they were.
SupersededFailureIgnored ==
  [][\A load \in pending :
       (IsFailureOf(load) /\ Superseded(load))
         => UNCHANGED <<activeLutKey, lutPass>>]_vars

\* C6 (as claimed): setLutPreset with a key that is no preset name leaves the
\* selection 'none', nothing bound, the pass disabled, and issues no load.
UnknownKeyNormalized ==
  [][\A key \in KeyInputs \ PresetNames :
       setLutPreset(key)
         => /\ activeLutKey' = "none"
            /\ lutPass'.lut = Null
            /\ ~lutPass'.enabled
            /\ pending' = pending]_vars

\* C7 (as claimed): a path's cache entry, once written, is not written again.
CacheWrittenOnce ==
  [][\A p \in Paths :
       lutLoadMap[p] # Null => lutLoadMap'[p] = lutLoadMap[p]]_vars

\* C8: a cache entry is never removed, and setLutPreset of a preset whose
\* path is cached binds the cached resource within the call and issues no
\* load.
CachedPresetAppliedAtOnce ==
  [][/\ \A p \in Paths : lutLoadMap[p] # Null => lutLoadMap'[p] # Null
     /\ \A key \in PresetNames :
          (lutLoadMap[PresetPath(key)] # Null /\ setLutPreset(key))
            => /\ lutPass'.lut = lutLoadMap[PresetPath(key)]
               /\ pending' = pending
               /\ nextLoadId' = nextLoadId]_vars

\* The latest call selected a preset, issued no load, and the cached texture
\* is bound and enabled, after another selection had been in effect.
CachedPresetReselected ==
  /\ lastCall.key \in PresetNames
  /\ lastCall.load = 0
  /\ lutPass.enabled
  /\ lutPass.lut = lutLoadMap[PresetPath(lastCall.key)]
  /\ \E p \in Paths : lutLoadMap[p] # Null /\ p # PresetPath(lastCall.key)


\* C9 (as claimed): the chain runs render, bloom, brightness/contrast,
\* hue/saturation, vignette, edge blur, grading, anti-aliasing.
GradingBeforeAntiAliasing ==
  composerPasses =
    <<"renderPass", "bloomPass", "bcPass", "hsPass", "vignettePass", "edgeBlurPass",
      "lutPass", "fxaaPass">>

\* C9 (amended): in every state the chain is render, bloom,
\* brightness/contrast, hue/saturation, vignette, edge blur, anti-aliasing,
\* grading: anti-aliasing precedes grading, and no event reorders, adds or
\* removes a pass.
ChainOrderFixed ==
  composerPasses =
    <<"renderPass", "bloomPass", "bcPass", "hsPass", "vignettePass", "edgeBlurPass",
      "fxaaPass", "lutPass">>

\* Events have been handled and both the grading pass and the anti-aliasing
\* pass are enabled.
GradingAndFxaaEnabled ==
  /\ events > 0
  /\ lutPass.enabled
  /\ fxaaPass.enabled

\* C10: no event changes the enabled flag or a parameter of more than one
\* stage: an event that toggles or reparameterises a stage leaves every
\* other stage as it was.
StagesIndependent ==
  [][\A a \in Stages : \A b \in Stages \ {a} :
       StageState(a)' # StageState(a) => StageState(b)' = StageState(b)]_vars

\* Three hotkeys have each changed their own stage: bloom toggled on, the
\* vignette darkened one step down, the hue turned one step up.
ThreeStagesTouched ==
  /\ bloomPass.enabled
  /\ vignettePass.darkness = 55
  /\ hsPass.hue = 2

(* --------------------------- claims on the viewer ---------------------- *)

\* The sizes every size-dependent stage holds when it reflects the viewport:
\* the viewport for the composer, bloom and edge blur, and for FXAA the
\* reciprocal of the viewport times the pixel ratio capped at 1.5.
SizesOfViewport ==
  [composer |-> <<innerWidth, innerHeight>>,
   bloom    |-> <<innerWidth, innerHeight>>,
   edgeBlur |-> <<innerWidth, innerHeight>>,
   fxaa     |-> <<innerWidth * (IF devicePixelRatio > 150 THEN 150 ELSE devicePixelRatio),
                  innerHeight * (IF devicePixelRatio > 150 THEN 150 ELSE devicePixelRatio)>>]

\* C11: once the resize listener has run, and whenever a frame is rendered,
\* the composer, bloom, edge blur and FXAA hold the sizes of the current
\* viewport: no frame is rendered with a stage sized for the previous one.
StagesSizedBeforeFrame ==
  lastEvent.name \in {"resize", "animate"} => postSizes = SizesOfViewport

\* A frame rendered after the window took another size and pixel ratio.
FrameAfterResize ==
  /\ lastEvent.name = "animate"
  /\ <<innerWidth, innerHeight>> = <<1024, 768>>
  /\ devicePixelRatio = 200

\* C12: for a source of at least one element and a target count of at least
\* one, sampleGeometryAttributes returns max(1, min(targetCount, srcCount))
\* elements: a positions array three times that long and, when the source
\* has colours, a colours array of the same length.
SampleHasClampedCount ==
  (sample.done /\ sample.geom.count >= 1 /\ sample.targetCount >= 1) =>
    LET n == IF sample.targetCount < sample.geom.count
               THEN sample.targetCount ELSE sample.geom.count
    IN  /\ n >= 1
        /\ sample.result.count = n
        /\ Len(sample.result.positions) = 3 * n
        /\ sample.geom.hasColor =>
             Len(sample.result.colors) = Len(sample.result.positions)

\* A coloured source sampled at a target count above its size.
SampledAboveSourceSize ==
  /\ sample.done
  /\ sample.geom.hasColor
  /\ sample.geom.count > 1
  /\ sample.targetCount > sample.geom.count
  /\ sample.result.count = sample.geom.count

\* floor(n * r) for r in ten-thousandths, floored at one element and capped
\* at n: the count the spec gives for a resample of n elements.
ResampledCount(n, r) ==
  LET k == (n * r) \div 10000
      m == IF k < n THEN k ELSE n
  IN  IF m > 1 THEN m ELSE 1

RenderedCountFollowsGeometry ==
  points # NoPoints =>
    points.position =
      IF morphTargetGeom # NoGeom
        THEN LET b == ResampledCount(originalGeom.count, keepRatio)
                 m == ResampledCount(morphTargetGeom.count, keepRatio)
             IN  IF b < m THEN b ELSE m
        ELSE ResampledCount(originalGeom.count, keepRatio)

\* C15: the position, color, morphPosition and morphColor attributes of the
\* rendered point set have the same element count, whether or not the base
\* has colours, a morph target exists, or the morph target has colours.
AttributesOfEqualCount ==
  points # NoPoints =>
    /\ points.color = points.position
    /\ points.morphPosition = points.position
    /\ points.morphColor = points.position

\* A point set just built from a coloured base and a morph target of another
\* size that has no colours.
BuiltWithSmallerMorphTarget ==
  /\ lastEvent.name = "morphLoaded"
  /\ points # NoPoints
  /\ originalGeom.hasColor
  /\ morphTargetGeom # NoGeom
  /\ ~morphTargetGeom.hasColor
  /\ morphTargetGeom.count < originalGeom.count
  /\ points.position > 1

\* C16: morphAmount is within [0, 1] in every reachable state, whatever the
\* wheel, scroll, resize and load events were.
MorphAmountInUnitInterval == morphAmount >= 0 /\ morphAmount <= 10000

\* A wheel event has just left the blend factor at its upper limit while a
\* point set is rendered.
WheelReachedUpperLimit ==
  /\ lastEvent.name = "wheel"
  /\ morphAmount = 10000
  /\ points # NoPoints
  /\ points.uMorph = 10000

\* C17: allowWheelMorph is true only while morphTargetGeom is not null.
WheelMorphOnlyWithTarget == allowWheelMorph => morphTargetGeom # NoGeom

\* C18: the success of a morph-target load that a later
\* loadMorphTargetGeometry call has superseded neither enables wheel
\* morphing nor installs its geometry.
SupersededMorphLoadIgnored ==
  [][\A load \in geomLoads :
       (/\ load.kind = "morph"
        /\ load.id # lastMorphCall
        /\ load \notin geomLoads'
        /\ lastEvent'.name = "morphLoaded")
       => /\ allowWheelMorph' = allowWheelMorph
          /\ morphTargetGeom' = morphTargetGeom]_vars

\* C19: right after a morph-target load has failed, morphTargetGeom is null,
\* allowWheelMorph is false and the blend factor is 0, in morphAmount and in
\* uMorph of the rendered point set.
MorphFailureResets ==
  lastEvent.name = "morphFailed" =>
    /\ morphTargetGeom = NoGeom
    /\ ~allowWheelMorph
    /\ morphAmount = 0
    /\ points # NoPoints => points.uMorph = 0

\* A morph-target load has just failed under a rendered point set, with
\* another morph-target load still in flight.
MorphFailedUnderRenderedSet ==
  /\ lastEvent.name = "morphFailed"
  /\ points # NoPoints
  /\ \E load \in geomLoads : load.kind = "morph"

\* C20: every failure of a resource load (primary model, morph target,
\* grading table) dispatches 'ui-refresh'.
EveryLoadFailureRefreshesUi ==
  [][/\ (lastEvent'.name \in {"modelFailed", "morphFailed"} /\ geomLoads' # geomLoads)
          => "ui-refresh" \in lastEvent'.dispatched
     /\ (\E load \in pending : IsFailureOf(load))
          => "ui-refresh" \in lastDispatched']_vars

\* A step is the wheel handler's on the event e.
WheelStep(e) ==
  handleWheelForMorph(e.overUi, e.modifier, e.shiftKey, e.deltaY, e.deltaMode)

\* C29: a wheel event that arrives while wheel morphing is not allowed, or
\* with alt, ctrl or meta held, or over the panel, its toggle or a form
\* control, leaves the blend factor as it was and keeps its default action
\* and its propagation; every other wheel event has both suppressed.
WheelSuppressedUnlessExcluded ==
  [][\A e \in WheelInputs :
       WheelStep(e) =>
         IF ~allowWheelMorph \/ e.modifier \/ e.overUi
           THEN /\ morphAmount' = morphAmount
                /\ ~lastEvent'.defaultPrevented
                /\ ~lastEvent'.propagationStopped
           ELSE /\ lastEvent'.defaultPrevented
                /\ lastEvent'.propagationStopped]_vars

\* With wheel morphing allowed and the blend factor strictly inside (0, 1),
\* a wheel event with a modifier held or over a control kept its default.
WheelExcludedWhileAllowed ==
  /\ lastEvent.name = "wheel"
  /\ ~lastEvent.defaultPrevented
  /\ allowWheelMorph
  /\ morphAmount > 0
  /\ morphAmount < 10000

\* C30: a wheel event the handler lets through sets the blend factor to the
\* old one plus delta times the step (0.0007 per pixel, 0.04 per line, 1.0
\* per page, three times that with shift), clamped to [0, 1]; a positive
\* delta never lowers the blend factor, a negative one never raises it.
WheelMovesBlendByStep ==
  [][\A e \in WheelInputs :
       (WheelStep(e) /\ allowWheelMorph /\ ~e.modifier /\ ~e.overUi) =>
         LET perUnit == CASE e.deltaMode = 1 -> 400
                          [] e.deltaMode = 2 -> 10000
                          [] OTHER -> 7
             moved == morphAmount + e.deltaY * perUnit * (IF e.shiftKey THEN 3 ELSE 1)
         IN  /\ morphAmount' = IF moved < 0 THEN 0 ELSE IF moved > 10000 THEN 10000 ELSE moved
             /\ e.deltaY > 0 => morphAmount' >= morphAmount
             /\ e.deltaY < 0 => morphAmount' <= morphAmount
             /\ points' # NoPoints => points'.uMorph = morphAmount']_vars

\* A wheel event moved the blend factor to a value strictly inside (0, 1)
\* that no scroll position of the model gives.
WheelMovedBlendInside ==
  /\ lastEvent.name = "wheel"
  /\ lastEvent.defaultPrevented
  /\ morphAmount = 7000
  /\ points.uMorph = 7000

\* C28: output element i of sampleGeometryAttributes is copied from source
\* vertex floor(i * srcCount / count); the source indices lie in
\* 0..srcCount-1, begin at 0 and increase strictly, so no vertex is taken
\* twice.
SampleTakesStridedVertices ==
  (sample.done /\ sample.result # NoSample) =>
    LET n == sample.result.count
        srcCount == sample.geom.count
        taken == [i \in 0..(n - 1) |-> sample.result.positions[3 * i + 1].src]
    IN  /\ \A i \in 0..(n - 1) :
             /\ taken[i] = (i * srcCount) \div n
             /\ taken[i] \in 0..(srcCount - 1)
             /\ \A c \in 1..3 : sample.result.positions[3 * i + c].src = taken[i]
        /\ taken[0] = 0
        /\ \A i \in 1..(n - 1) : taken[i] > taken[i - 1]

\* C22: whatever values the sliders send and whatever hotkeys are pressed,
\* keepRatio stays within [0.02, 1], pointSizePx within [0.5, 12], scatterAmp
\* within [0, 1] and fogDensity within [0, 2].
ParametersWithinRanges ==
  /\ keepRatio >= 200 /\ keepRatio <= 10000
  /\ pointSizePx >= 50 /\ pointSizePx <= 1200
  /\ scatterAmp >= 0 /\ scatterAmp <= 1000
  /\ fogDensity >= 0 /\ fogDensity <= 2000

\* Every slider has sent a value outside its range, and a hotkey was pressed
\* on a rendered point set with its parameter at an end of the range.
HotkeyAtEndOfRange ==
  /\ lastEvent.name = "keydown"
  /\ points # NoPoints
  /\ keepRatio = 10000
  /\ pointSizePx = 50
  /\ points.uBaseSize = 50
  /\ scatterAmp = 1000
  /\ fogDensity = 0

\* C23: at every rendered frame, each animation parameter of the point set
\* (wind flag, amplitude, frequency and spatial scale; wave length, speed,
\* width and gamma; world-size and size-attenuation flags) has the value its
\* most recent change event wrote, whether or not the point set was rebuilt
\* since, and whether or not a point set existed when the event arrived.
UniformsFollowLastEvent ==
  (lastEvent.name = "animate" /\ points # NoPoints) =>
    \A n \in ParamNames :
      lastParam[n].changed => points.params[n] = lastParam[n].value

\* C21: the scene never holds more than one point set, and the one it holds
\* is the set `points` refers to, built and not disposed. A slider event
\* whose buildPoints() returns early (no base geometry, or one without a
\* position attribute) leaves the point set and the scene as they were, as
\* does the early return inside a model load, apart from the blend factor
\* the load resets first. A call that builds leaves the new set, built from
\* the current base geometry, as the only one in the scene.
SceneHoldsOneLivePointSet ==
  /\ [](/\ Len(scene) <= 1
        /\ \A i \in 1..Len(scene) : scene[i].current /\ ~scene[i].disposed
        /\ (Len(scene) = 1) <=> (points # NoPoints))
  /\ [][LET aborts == ~HasPosition(originalGeom')
             name == lastEvent'.name
         IN  /\ (name \in {"density", "psize"} /\ aborts) =>
                  (points' = points /\ scene' = scene)
             /\ (name \in {"modelLoaded", "modelThrew"} /\ aborts) =>
                  (points' = updateMorphUniform(points, 0) /\ scene' = scene)
             /\ (name \in {"density", "psize", "modelLoaded", "morphLoaded"} /\ ~aborts) =>
                  (/\ Len(scene') = 1
                   /\ points' # NoPoints
                   /\ points'.base = originalGeom'.path
                   /\ points'.uBaseSize = pointSizePx')]_vars

\* The density slider moved while the base geometry had no position
\* attribute and an earlier model's point set was still in the scene.
BuildAbortedUnderRenderedSet ==
  /\ lastEvent.name = "density"
  /\ originalGeom # NoGeom
  /\ ~HasPosition(originalGeom)
  /\ points # NoPoints
  /\ points.base # originalGeom.path
  /\ Len(scene) = 1

WaveFrontsAtMultiplesOfLength ==
  (/\ shade.frames > 0
   /\ shade.u.uWaveLength = 600 /\ shade.u.uWaveSpeed = 6 /\ shade.u.uTime = 10
   /\ shade.out.p \in {600, 1200}) =>
    /\ shade.out.vPulse = 1000
    /\ wavePulse(shade.out.p + 600, shade.u, shade.build) = 1000

\* C24: with everything else fixed, the footprint of an element does not
\* grow when the scatter amplitude rises, and it is 0 at an amplitude of 0.5
\* and above.
FootprintShrinksWithScatter ==
  shade.frames > 1 =>
    /\ shade.out.gl_PointSize <= shade.prev.gl_PointSize
    /\ shade.scatter >= 500 => shade.out.gl_PointSize = 0

\* C24, amended: the footprint is the size the displaced element would have
\* without the shrink, times clamp(1 - scatter / 0.5, 0, 1); that factor does
\* not grow when the scatter amplitude rises, and it and the footprint are 0
\* at an amplitude of 0.5 and above.
FootprintScaledByScatter ==
  shade.frames > 1 =>
    /\ shade.out.gl_PointSize =
         (sizeBeforeScatter(shade.out.p, shade.u, shade.build)
            * shade.out.scatterScale) \div 1000
    /\ shade.out.scatterScale <= shade.prev.scatterScale
    /\ shade.out.scatterScale = IF shade.scatter >= 500 THEN 0
                                ELSE 1000 - 2 * shade.scatter
    /\ shade.scatter >= 500 => shade.out.gl_PointSize = 0
    /\ shade.scatter < 500 => shade.out.gl_PointSize > 0

\* An element that was drawn with a positive footprint at a scatter
\* amplitude below 0.5 is shaded at 0.5.
FootprintGoneAtHalf ==
  /\ shade.frames = 2
  /\ shade.prevScatter = 450
  /\ shade.prev.gl_PointSize > 0
  /\ shade.scatter = 500
  /\ shade.out.gl_PointSize = 0

\* C25: with scatter amplitude 0 and wind disabled, an element of the
\* rendered set is at its base position when the blend factor is 0 and at
\* its morph-target position when it is 1; while no morph target is loaded
\* it is at its base position whatever the blend factor.
BlendEndsAtBaseAndTarget ==
  (points # NoPoints /\ points.uScatterAmp = 0 /\ points.params.uWindEnabled = 0) =>
    LET u == elementInputs(points)
        p == vertexShader(u, points.uScatterAmp, "reference").p
    IN  /\ points.uMorph = 0 => p = u.position
        /\ points.uMorph = 10000 => p = u.morphPosition
        /\ morphTargetGeom = NoGeom => p = u.position

\* A step is the failure of `load` when it takes the load out of `pending`
\* and console.error reports it.
LutFailureOf(load) == load \in pending /\ load \notin pending' /\ load \in lutErrors'

\* A step is the success of `load` when it takes the load out of `pending`
\* and nothing is reported.
LutSuccessOf(load) == load \in pending /\ load \notin pending' /\ load \notin lutErrors'

\* C36 (as claimed): a failed load writes no cache entry; the setLutPreset
\* call for the same preset that follows the failure of the preset's latest
\* load issues a fresh load and binds nothing; and the success of such a
\* retry while its preset is the selection leaves the resource bound and the
\* stage enabled.
FailedLoadRetriedAndEnabled ==
  [][/\ \A load \in pending : LutFailureOf(load) => lutLoadMap' = lutLoadMap
     /\ \A key \in PresetNames :
          (/\ lastCall.key = key
           /\ \E l \in lutErrors : l.id = lastCall.load
           /\ setLutPreset(key))
            => (pending' # pending /\ lutPass' = lutPass)
     /\ \A load \in pending :
          (/\ \E l \in lutErrors : l.key = load.key /\ l.id < load.id
           /\ LutSuccessOf(load)
           /\ activeLutKey = load.key)
            => (lutPass'.lut = Texture(load) /\ lutPass'.enabled)]_vars

\* C36 (amended): a failed load writes no cache entry; setLutPreset of a
\* preset whose path has no cache entry issues one fresh load and binds
\* nothing; and the success of a load while its preset is the selection
\* leaves the resource bound and cached, the stage enabled exactly when the
\* intensity is above zero.
FailedLoadLeavesPresetUncached ==
  [][/\ \A load \in pending : LutFailureOf(load) => lutLoadMap' = lutLoadMap
     /\ \A key \in PresetNames :
          (lutLoadMap[PresetPath(key)] = Null /\ setLutPreset(key))
            => /\ pending' = pending \cup
                    {[id |-> nextLoadId, key |-> key, path |-> PresetPath(key)]}
               /\ nextLoadId' = nextLoadId + 1
               /\ lutPass' = lutPass
     /\ \A load \in pending :
          (LutSuccessOf(load) /\ activeLutKey = load.key)
            => /\ lutPass'.lut = Texture(load)
               /\ lutLoadMap'[load.path] = Texture(load)
               /\ lutPass'.enabled <=> lutIntensity > 0]_vars

\* The first load of a preset failed, the next call selected the preset
\* again and issued the second load, and that load's texture is cached,
\* bound and enabled.
RetrySucceeded ==
  /\ pending = {}
  /\ lastCall.load = 2
  /\ \E l \in lutErrors : l.id = 1 /\ l.key = lastCall.key
  /\ lutPass.lut # Null
  /\ lutPass.lut.id = 2
  /\ lutLoadMap[PresetPath(lastCall.key)] = lutPass.lut
  /\ lutPass.enabled

\* C37 (as claimed): whenever the grading pass is enabled, the texture bound
\* to it is the cache entry of the selected preset's path.
EnabledStageBoundToActive ==
  lutPass.enabled =>
    /\ activeLutKey \in PresetNames
    /\ lutPass.lut = lutLoadMap[PresetPath(activeLutKey)]

\* C33 (as claimed): bloom strength stays within [0, 3], vignette darkness
\* within [0, 2], brightness, contrast, hue and saturation within [-1, 1].
PostFxWithinRanges ==
  /\ bloomPass.strength \in 0..300
  /\ vignettePass.darkness \in 0..200
  /\ bcPass.brightness \in -100..100
  /\ bcPass.contrast \in -100..100
  /\ hsPass.hue \in -100..100
  /\ hsPass.saturation \in -100..100

\* clamp(scrollTop / (scrollHeight - viewportHeight), 0, 1) in
\* ten-thousandths, 0 when nothing can be scrolled.
ScrollBlend(scrollTop, scrollHeight, viewportHeight) ==
  LET extent == scrollHeight - viewportHeight
  IN  IF extent <= 0 \/ scrollTop <= 0 THEN 0
      ELSE IF scrollTop >= extent THEN 10000
      ELSE (scrollTop * 10000) \div extent

\* C31: every scroll event and every resize event leaves the blend factor at
\* clamp(scrollTop / (scrollHeight - viewportHeight), 0, 1), and at 0 when
\* that extent is not positive, whatever the blend factor was and whether a
\* morph target is loaded or not.
ScrollAndResizeSetBlend ==
  [][\A scrollTop \in ScrollTops, scrollHeight \in ScrollHeights :
       (syncMorphToScroll(scrollTop, scrollHeight) \/ OnResize(scrollTop, scrollHeight))
         => morphAmount' = ScrollBlend(scrollTop, scrollHeight, innerHeight)]_vars

\* A resize event has left the blend factor strictly inside its range while
\* no morph target is loaded.
ResizeSetBlendWithoutTarget ==
  /\ lastEvent.name = "resize"
  /\ morphTargetGeom = NoGeom
  /\ points # NoPoints
  /\ morphAmount \in 1..9999

\* C32 (as claimed): within a rebuild, a buffer of the previous point set is
\* released only when the new point set is in the scene and the previous one
\* is not.
ReleasedOnlyAfterSwap ==
  [][\A d \in rebuild'.disposed \ rebuild.disposed :
       /\ \A i \in 1..Len(rebuild.scene) : rebuild.scene[i].id # d.id
       /\ \E i \in 1..Len(rebuild.scene) : rebuild.scene[i] = rebuild.fresh]_vars

\* C34: a point set built from a base without colours has a colour array of
\* ones and uUseVertexColor = 0; its morph colour array holds the target's
\* colours when the target has them, otherwise a copy of the base colours,
\* otherwise ones. The base and the target are the geometries buildPoints
\* reads: a model's onLoad builds before it clears the target.
ColourFallbacksOfBuild ==
  [][(/\ lastEvent'.name \in {"density", "modelLoaded", "morphLoaded"}
      /\ HasPosition(originalGeom'))
     => LET base   == originalGeom'
            target == IF lastEvent'.name = "modelLoaded" THEN morphTargetGeom
                      ELSE morphTargetGeom'
        IN  /\ ~base.hasColor =>
                  (points'.colors = "ones" /\ ~points'.uUseVertexColor)
            /\ base.hasColor =>
                  (points'.colors = base.path /\ points'.uUseVertexColor)
            /\ points'.morphColors =
                  IF target # NoGeom /\ target.count > 0 /\ target.hasColor
                    THEN target.path
                  ELSE IF base.hasColor THEN base.path
                  ELSE "ones"]_vars

\* A point set just built from a base without colours and a morph target
\* with colours: white, vertex colours off, morph colours from the target.
WhiteBaseColouredTarget ==
  /\ lastEvent.name = "morphLoaded"
  /\ ~originalGeom.hasColor
  /\ morphTargetGeom.hasColor
  /\ points.colors = "ones"
  /\ ~points.uUseVertexColor
  /\ points.morphColors = morphTargetGeom.path

LastRequestedModelInUse ==
  (\A load \in geomLoads : load.kind # "model") =>
    /\ originalGeom.path = models[modelIndex + 1]
    /\ points # NoPoints => points.base = models[modelIndex + 1]
====
